---- MODULE Spec2Model ----
(***************************************************************************)
(* Model of the cairn goal store (pkg/store/store.go): the goals/          *)
(* directory tree, the goal.md file of every directory, the children-order *)
(* merge of LoadGoalTree / getSiblingOrder, and the mutating operations    *)
(* CreateGoal, DeleteGoal, ReorderGoal and MoveGoal.                       *)
(*                                                                         *)
(* Paths are Go strings ("a/ab"), kept as strings so that filepath.Base,   *)
(* filepath.Dir, filepath.Join and strings.HasPrefix are modelled on the   *)
(* characters, as the code computes them.                                  *)
(***************************************************************************)
EXTENDS Integers, Sequences, FiniteSets, TLC

VARIABLES
    dirs,   \* directories under goals/, by relative path
    files,  \* the goal.md of each directory that has one ("" is goals/)
    last,   \* the most recent store call and the error it returned
    tree,   \* the goal tree returned by the most recent LoadGoalTree
    calls,  \* number of store calls made so far
    today,  \* the date time.Now() falls on, as AddNote formats it
    goalsDir, \* whether the goals/ directory itself exists
    watcher,  \* StartWatcher: directories, fsnotify watches, channel, timers
    observed, \* what has been seen of the watcher so far (for the properties)
    view,     \* the TUI Model: goals, queue, expansion, visible items, cursor
    returned  \* what the most recent SearchNotes or GoalsByHorizon returned

vars == <<dirs, files, last, tree, calls, today, goalsDir, watcher, observed,
          view, returned>>

\* what the calls on a store made by NewStore neither read nor write
others == <<today, goalsDir, watcher, observed, view, returned>>

\* what the file watcher neither reads nor writes
storeVars == <<dirs, files, last, tree, calls, today, goalsDir, view,
              returned>>

(***************************************************************************)
(* Bounds                                                                  *)
(***************************************************************************)
\* largest number of goal directories under goals/
MaxGoals == 3
\* deepest goal path, in segments
MaxDepth == 3
\* longest hand-written children_order hint
MaxHint == 3
\* number of store calls in a run
MaxCalls == 4

\* directory names used for goals
Slugs == {"a", "ab", "b"}
\* slug proposals handed to CreateGoal (normalised by the store)
ProposedSlugs == Slugs \cup {"B"}
\* names a hand-written hint may mention; "x" never names a directory
HintNames == Slugs \cup {"x"}

(***************************************************************************)
(* Strings                                                                 *)
(***************************************************************************)
\* byte order of the characters that occur in paths
Alphabet == " -/ABabx"

CharAt(s, i) == SubSeq(s, i, i)

Chars == {CharAt(Alphabet, i) : i \in 1..Len(Alphabet)}

RankOf == [c \in Chars |-> CHOOSE i \in 1..Len(Alphabet) : CharAt(Alphabet, i) = c]

CharRank(c) == RankOf[c]

RECURSIVE StrLessFrom(_, _, _)
StrLessFrom(s, t, i) ==
    IF i > Len(t) THEN FALSE
    ELSE IF i > Len(s) THEN TRUE
    ELSE IF CharAt(s, i) = CharAt(t, i) THEN StrLessFrom(s, t, i + 1)
    ELSE CharRank(CharAt(s, i)) < CharRank(CharAt(t, i))

\* s < t on Go strings (bytewise lexicographic)
StrLess(s, t) == StrLessFrom(s, t, 1)

HasPrefix(s, prefix) ==
    /\ Len(prefix) <= Len(s)
    /\ SubSeq(s, 1, Len(prefix)) = prefix

ToLowerChar(c) ==
    IF c = "A" THEN "a" ELSE IF c = "B" THEN "b" ELSE c

RECURSIVE MapChars(_, _, _)
MapChars(s, i, acc) ==
    IF i > Len(s) THEN acc
    ELSE LET c == CharAt(s, i)
             r == IF c = " " THEN "-" ELSE c
         IN MapChars(s, i + 1, acc \o ToLowerChar(r))

\* a normalisation that lowercases and keeps the spaces
NormalizeSlugLowerOnly(slug) ==
    LET lowered[i \in 0..Len(slug)] ==
            IF i = 0 THEN "" ELSE lowered[i - 1] \o ToLowerChar(CharAt(slug, i))
    IN lowered[Len(slug)]

\* strings.ToLower(strings.ReplaceAll(slug, " ", "-"))
NormalizeSlug(slug) == MapChars(slug, 1, "")

Separator == "/"

RECURSIVE LastSlashFrom(_, _)
LastSlashFrom(p, i) ==
    IF i = 0 THEN 0
    ELSE IF CharAt(p, i) = Separator THEN i
    ELSE LastSlashFrom(p, i - 1)

\* index of the last separator of p, 0 when there is none
LastSlash(p) == LastSlashFrom(p, Len(p))

\* filepath.Base on a clean relative path
Base(p) ==
    IF p = "" THEN "." ELSE SubSeq(p, LastSlash(p) + 1, Len(p))

\* filepath.Dir on a clean relative path
Dir(p) ==
    LET k == LastSlash(p)
    IN IF k = 0 THEN "." ELSE SubSeq(p, 1, k - 1)

\* filepath.Join of two clean elements (empty elements are ignored)
Join(a, b) ==
    IF a = "" THEN b ELSE IF b = "" THEN a ELSE a \o Separator \o b

\* the parent path as ReorderGoal and MoveGoal compute it
ParentPath(p) ==
    LET parent == Dir(p)
    IN IF parent = "." THEN "" ELSE parent

Depth(p) ==
    IF p = "" THEN 0
    ELSE 1 + Cardinality({i \in 1..Len(p) : CharAt(p, i) = Separator})

(***************************************************************************)
(* The disk: dirs is the set of directories under goals/ (by relative     *)
(* path, goals/ itself is ""), files maps a directory to its goal.md.      *)
(***************************************************************************)
NoFile == [kind |-> "absent"]

StatusIncomplete == "incomplete"
StatusInProgress == "in-progress"
StatusComplete == "complete"
HorizonFuture == "future"

\* the frontmatter fields of a Goal, as written to goal.md
GoalFile(title, status, horizon, order, body) ==
    [kind |-> "goal", title |-> title, status |-> status,
     horizon |-> horizon, order |-> order, body |-> body]

Exists(d, p) == p = "" \/ p \in d

FileAt(f, p) == IF p \in DOMAIN f THEN f[p] ELSE NoFile

\* os.ReadDir restricted to directories: names sorted by filename
ChildNames(d, p) == {Base(q) : q \in {r \in d : ParentPath(r) = p}}

RECURSIVE SortNames(_)
SortNames(S) ==
    IF S = {} THEN <<>>
    ELSE LET m == CHOOSE x \in S : \A y \in S : x = y \/ StrLess(x, y)
         IN <<m>> \o SortNames(S \ {m})

ReadDir(d, p) == SortNames(ChildNames(d, p))

\* os.MkdirAll: the directory and every missing ancestor
RECURSIVE Ancestors(_)
Ancestors(p) ==
    IF p = "" THEN {} ELSE {p} \cup Ancestors(ParentPath(p))

MkdirAll(d, p) == d \cup Ancestors(p)

\* strings.ToLower
ToLower(s) ==
    LET lowered[i \in 0..Len(s)] ==
            IF i = 0 THEN "" ELSE lowered[i - 1] \o ToLowerChar(CharAt(s, i))
    IN lowered[Len(s)]

\* every directory at or below p
Subtree(d, p) == {q \in d : q = p \/ HasPrefix(q, p \o Separator)}

(***************************************************************************)
(* LoadGoal and SaveGoal                                                   *)
(***************************************************************************)
\* strings.Index from position i on: 1-based index of the first occurrence
\* of sub at or after i, 0 when there is none
RECURSIVE IndexFrom(_, _, _)
IndexFrom(s, sub, i) ==
    IF i + Len(sub) - 1 > Len(s) THEN 0
    ELSE IF SubSeq(s, i, i + Len(sub) - 1) = sub THEN i
    ELSE IndexFrom(s, sub, i + 1)

Index(s, sub) == IndexFrom(s, sub, 1)

Contains(s, sub) == Index(s, sub) # 0

HasSuffix(s, suffix) ==
    /\ Len(suffix) <= Len(s)
    /\ SubSeq(s, Len(s) - Len(suffix) + 1, Len(s)) = suffix

\* the white space strings.TrimSpace removes, of the characters in use
IsSpace(c) == c = " " \/ c = "\n"

RECURSIVE TrimRightSpace(_)
TrimRightSpace(s) ==
    IF s # "" /\ IsSpace(CharAt(s, Len(s)))
    THEN TrimRightSpace(SubSeq(s, 1, Len(s) - 1))
    ELSE s

\* strings.TrimLeft(s, "\n")
RECURSIVE TrimLeftNewlines(_)
TrimLeftNewlines(s) ==
    IF s # "" /\ CharAt(s, 1) = "\n"
    THEN TrimLeftNewlines(SubSeq(s, 2, Len(s)))
    ELSE s

\* the Body ParseFrontmatter reads back from what SerializeFrontmatter wrote
\* for body: TrimSpace of the file drops the white space at its end, and
\* the newlines after the closing delimiter are trimmed
ParsedBody(body) ==
    IF body = "" THEN "" ELSE TrimLeftNewlines(TrimRightSpace(body))

\* LoadGoal: the parsed goal.md with Slug and Path stamped in, or an error
LoadGoal(d, f, p) ==
    LET file == FileAt(f, p)
    IN IF ~Exists(d, p) \/ file.kind # "goal"
       THEN [err |-> TRUE]
       ELSE [err |-> FALSE,
             goal |-> [file EXCEPT !.body = ParsedBody(file.body)],
             slug |-> Base(p), path |-> p]

\* SaveGoal: MkdirAll of the goal's directory, then goal.md is rewritten
SaveGoalDirs(d, p) == MkdirAll(d, p)

SaveGoalFiles(f, p, file) ==
    [q \in DOMAIN f \cup {p} |-> IF q = p THEN file ELSE f[q]]

(***************************************************************************)
(* LoadGoalTree                                                            *)
(***************************************************************************)
\* a placeholder that carries no title and no status
PlaceholderGoalBlank(p) == GoalFile("", "", "", <<>>, "")

\* the Goal built when goal.md is absent or does not parse
PlaceholderGoal(p) == GoalFile(Base(p), StatusIncomplete, "", <<>>, "")

\* first loop of the merge: hint entries that are keys of childMap, in hint
\* order; seen collects the names appended
RECURSIVE WalkChildrenOrder(_, _, _, _)
WalkChildrenOrder(order, i, childMap, acc) ==
    IF i > Len(order) THEN acc
    ELSE IF order[i] \in childMap
         THEN WalkChildrenOrder(order, i + 1, childMap,
                  [list |-> Append(acc.list, order[i]),
                   seen |-> acc.seen \cup {order[i]}])
         ELSE WalkChildrenOrder(order, i + 1, childMap, acc)

\* second loop of the merge: names of defaultOrder not marked seen
RECURSIVE AppendUnseen(_, _, _, _)
AppendUnseen(defaultOrder, i, seen, list) ==
    IF i > Len(defaultOrder) THEN list
    ELSE IF defaultOrder[i] \notin seen
         THEN AppendUnseen(defaultOrder, i + 1, seen,
                           Append(list, defaultOrder[i]))
         ELSE AppendUnseen(defaultOrder, i + 1, seen, list)

\* a merge that forgets the children the hint does not list
OrderedChildrenHintOnly(childrenOrder, defaultOrder) ==
    LET childMap == {defaultOrder[i] : i \in 1..Len(defaultOrder)}
    IN IF Len(childrenOrder) > 0
       THEN WalkChildrenOrder(childrenOrder, 1, childMap,
                              [list |-> <<>>, seen |-> {}]).list
       ELSE defaultOrder

\* the child names of a loaded goal, in loaded order (loadGoalRecursive)
OrderedChildren(childrenOrder, defaultOrder) ==
    LET childMap == {defaultOrder[i] : i \in 1..Len(defaultOrder)}
    IN IF Len(childrenOrder) > 0
       THEN LET hinted == WalkChildrenOrder(childrenOrder, 1, childMap,
                                            [list |-> <<>>, seen |-> {}])
            IN AppendUnseen(defaultOrder, 1, hinted.seen, hinted.list)
       ELSE defaultOrder

\* loadGoalRecursive: the goal at p (or its placeholder) with its children
\* loaded recursively and ordered by the goal's own children_order
RECURSIVE LoadGoalRecursive(_, _, _)
LoadGoalRecursive(d, f, p) ==
    LET loaded == LoadGoal(d, f, p)
        goal == IF loaded.err THEN PlaceholderGoal(p) ELSE loaded.goal
        names == OrderedChildren(goal.order, ReadDir(d, p))
    IN [slug |-> Base(p), path |-> p, title |-> goal.title,
        status |-> goal.status, horizon |-> goal.horizon,
        order |-> goal.order, body |-> goal.body,
        placeholder |-> loaded.err,
        children |-> [i \in 1..Len(names) |->
                         LoadGoalRecursive(d, f, Join(p, names[i]))]]

\* the children_order of goals/goal.md, empty when absent or unparseable
TopOrder(f) ==
    LET file == FileAt(f, "")
    IN IF file.kind = "goal" THEN file.order ELSE <<>>

\* the names of the top-level goals, in loaded order (LoadGoalTree)
OrderedTopLevel(topOrder, defaultOrder) ==
    LET goalMap == {defaultOrder[i] : i \in 1..Len(defaultOrder)}
    IN IF Len(topOrder) > 0
       THEN LET hinted == WalkChildrenOrder(topOrder, 1, goalMap,
                                            [list |-> <<>>, seen |-> {}])
            IN AppendUnseen(defaultOrder, 1, hinted.seen, hinted.list)
       ELSE defaultOrder

\* LoadGoalTree: the ordered list of top-level goals
LoadGoalTree(d, f) ==
    LET names == OrderedTopLevel(TopOrder(f), ReadDir(d, ""))
    IN [i \in 1..Len(names) |-> LoadGoalRecursive(d, f, names[i])]

\* LoadGoalTree with its error: os.ReadDir of a goals/ that does not exist
\* gives (nil, nil)
LoadGoalTreeFrom(present, d, f) ==
    IF ~present THEN [err |-> "", goals |-> <<>>]
    ELSE [err |-> "", goals |-> LoadGoalTree(d, f)]

(***************************************************************************)
(* Sibling order and its persistence                                       *)
(***************************************************************************)
\* a sibling order that is the directory listing, whatever the hint
GetSiblingOrderAlphabetical(d, f, parentPath) ==
    IF ~Exists(d, parentPath) THEN [err |-> TRUE, order |-> <<>>]
    ELSE [err |-> FALSE, order |-> ReadDir(d, parentPath)]

\* getSiblingOrder: merged child names of parentPath, or an error when the
\* directory cannot be read
GetSiblingOrder(d, f, parentPath) ==
    IF ~Exists(d, parentPath) THEN [err |-> TRUE, order |-> <<>>]
    ELSE
    LET dirNames == ReadDir(d, parentPath)
        loaded == LoadGoal(d, f, parentPath)
        order == IF parentPath = "" THEN TopOrder(f)
                 ELSE IF loaded.err THEN <<>> ELSE loaded.goal.order
        dirSet == {dirNames[i] : i \in 1..Len(dirNames)}
    IN IF Len(order) > 0
       THEN LET hinted == WalkChildrenOrder(order, 1, dirSet,
                                            [list |-> <<>>, seen |-> {}])
            IN [err |-> FALSE,
                order |-> AppendUnseen(dirNames, 1, hinted.seen, hinted.list)]
       ELSE [err |-> FALSE, order |-> dirNames]

\* saveChildrenOrder: writes order into goals/goal.md (top level) or into
\* the parent's goal.md, creating a minimal goal when none can be loaded
SaveChildrenOrder(d, f, parentPath, order) ==
    IF parentPath = ""
    THEN LET file == FileAt(f, "")
             goal == IF file.kind = "goal" THEN file
                     ELSE GoalFile("", "", "", <<>>, "")
         IN [dirs |-> d,
             files |-> SaveGoalFiles(f, "", [goal EXCEPT !.order = order])]
    ELSE LET loaded == LoadGoal(d, f, parentPath)
             goal == IF loaded.err THEN PlaceholderGoal(parentPath)
                     ELSE loaded.goal
         IN [dirs |-> SaveGoalDirs(d, parentPath),
             files |-> SaveGoalFiles(f, parentPath,
                                     [goal EXCEPT !.order = order])]

(***************************************************************************)
(* Store operations: each yields the error it returns ("" for nil) and the *)
(* disk it leaves behind                                                   *)
(***************************************************************************)
Result(err, d, f) == [err |-> err, dirs |-> d, files |-> f]

\* a CreateGoal that saves without looking for an existing directory
CreateGoalOverwrites(d, f, parentPath, proposed) ==
    LET slug == NormalizeSlug(proposed)
        goalPath == IF parentPath = "" THEN slug ELSE Join(parentPath, slug)
    IN Result("", SaveGoalDirs(d, goalPath),
              SaveGoalFiles(f, goalPath,
                  GoalFile(slug, StatusIncomplete, HorizonFuture, <<>>, "")))

\* CreateGoal(parentPath, slug)
CreateGoal(d, f, parentPath, proposed) ==
    LET slug == NormalizeSlug(proposed)
        goalPath == IF parentPath = "" THEN slug ELSE Join(parentPath, slug)
    IN IF Exists(d, goalPath)
       THEN Result("already exists", d, f)
       ELSE Result("", SaveGoalDirs(d, goalPath),
                   SaveGoalFiles(f, goalPath,
                       GoalFile(slug, StatusIncomplete, HorizonFuture,
                                <<>>, "")))

\* os.RemoveAll(dir); filepath.Join(GoalsDir, "") is goals/ itself
RemoveAllDirs(d, p) == IF p = "" THEN {} ELSE d \ Subtree(d, p)

\* of the files only those beside goals/ outlive its removal
RemoveAllFiles(d, f, p) ==
    IF p = ""
    THEN [q \in {r \in DOMAIN f : HasPrefix(r, "../")} |-> f[q]]
    ELSE [q \in DOMAIN f \ Subtree(d, p) |-> f[q]]

\* a DeleteGoal that removes goal.md and leaves the directories
DeleteGoalFileOnly(d, f, goalPath) ==
    IF ~Exists(d, goalPath)
    THEN Result("not found", d, f)
    ELSE Result("", d, [q \in DOMAIN f \ {goalPath} |-> f[q]])

\* a DeleteGoal that removes every path that begins with the name
DeleteGoalByPrefix(d, f, goalPath) ==
    IF ~Exists(d, goalPath)
    THEN Result("not found", d, f)
    ELSE Result("", {q \in d : ~HasPrefix(q, goalPath)},
                [q \in {r \in DOMAIN f : r = "" \/ ~HasPrefix(r, goalPath)}
                    |-> f[q]])

\* DeleteGoal(goalPath)
DeleteGoal(d, f, goalPath) ==
    IF ~Exists(d, goalPath)
    THEN Result("not found", d, f)
    ELSE Result("", RemoveAllDirs(d, goalPath), RemoveAllFiles(d, f, goalPath))

\* "## " and the date
DateHeader(day) == "## " \o day

\* the Body AddNote builds from the loaded body
NotedBody(body, text, day) ==
    LET dateHeader == DateHeader(day)
    IN IF Contains(body, dateHeader)
       THEN LET idx == Index(body, dateHeader)
                afterHeader == idx + Len(dateHeader)
                nlIdx == IndexFrom(body, "\n", afterHeader)
            IN IF nlIdx = 0
               THEN body \o "\n- " \o text \o "\n"
               ELSE SubSeq(body, 1, nlIdx) \o "- " \o text \o "\n"
                       \o SubSeq(body, nlIdx + 1, Len(body))
       ELSE LET ended == IF body # "" /\ ~HasSuffix(body, "\n")
                         THEN body \o "\n" ELSE body
                spaced == IF ended # "" THEN ended \o "\n" ELSE ended
            IN spaced \o dateHeader \o "\n- " \o text \o "\n"

\* AddNote(goalPath, text) on the given day
AddNote(d, f, goalPath, text, day) ==
    LET loaded == LoadGoal(d, f, goalPath)
    IN IF loaded.err THEN Result("reading goal", d, f)
       ELSE Result("", SaveGoalDirs(d, goalPath),
                   SaveGoalFiles(f, goalPath,
                       [loaded.goal EXCEPT
                           !.body = NotedBody(loaded.goal.body, text, day)]))

\* index of the first occurrence of slug in siblings, 0 when absent
IndexOf(siblings, slug) ==
    LET hits == {i \in 1..Len(siblings) : siblings[i] = slug}
    IN IF hits = {} THEN 0 ELSE CHOOSE i \in hits : \A j \in hits : i <= j

Swap(siblings, i, j) ==
    [k \in 1..Len(siblings) |->
        IF k = i THEN siblings[j] ELSE IF k = j THEN siblings[i]
        ELSE siblings[k]]

\* a ReorderGoal that persists the order even when nothing is swapped
ReorderGoalSavesAtBoundary(d, f, goalPath, delta) ==
    LET slug == Base(goalPath)
        parentPath == ParentPath(goalPath)
        siblings == GetSiblingOrder(d, f, parentPath)
        idx == IndexOf(siblings.order, slug)
        newIdx == idx + delta
        swapped == IF newIdx < 1 \/ newIdx > Len(siblings.order)
                   THEN siblings.order
                   ELSE Swap(siblings.order, idx, newIdx)
    IN IF siblings.err THEN Result("reading directory", d, f)
       ELSE IF idx = 0 THEN Result("not found among siblings", d, f)
       ELSE LET saved == SaveChildrenOrder(d, f, parentPath, swapped)
            IN Result("", saved.dirs, saved.files)

\* ReorderGoal(goalPath, delta)
ReorderGoal(d, f, goalPath, delta) ==
    LET slug == Base(goalPath)
        parentPath == ParentPath(goalPath)
        siblings == GetSiblingOrder(d, f, parentPath)
        idx == IndexOf(siblings.order, slug)
        newIdx == idx + delta
    IN IF siblings.err THEN Result("reading directory", d, f)
       ELSE IF idx = 0 THEN Result("not found among siblings", d, f)
       ELSE IF newIdx < 1 \/ newIdx > Len(siblings.order)
            THEN Result("", d, f)
       ELSE LET saved == SaveChildrenOrder(d, f, parentPath,
                             Swap(siblings.order, idx, newIdx))
            IN Result("", saved.dirs, saved.files)

\* os.Rename(srcDir, dstDir) of a directory with everything beneath it
Renamed(q, src, dst) == dst \o SubSeq(q, Len(src) + 1, Len(q))

\* a rename that carries the directory but not what lies beneath it
RenameDirsTopOnly(d, src, dst) ==
    (d \ Subtree(d, src)) \cup {dst}

RenameDirs(d, src, dst) ==
    (d \ Subtree(d, src)) \cup {Renamed(q, src, dst) : q \in Subtree(d, src)}

RenameFiles(d, f, src, dst) ==
    LET moved == Subtree(d, src) \cap DOMAIN f
        kept == DOMAIN f \ Subtree(d, src)
    IN [q \in kept \cup {Renamed(r, src, dst) : r \in moved} |->
           IF q \in kept THEN f[q]
           ELSE f[CHOOSE r \in moved : Renamed(r, src, dst) = q]]

\* removeFromChildrenOrder(parentPath, slug)
RemoveFromChildrenOrder(d, f, parentPath, slug) ==
    LET siblings == GetSiblingOrder(d, f, parentPath)
        newOrder == SelectSeq(siblings.order, LAMBDA name : name # slug)
    IN IF siblings.err THEN [dirs |-> d, files |-> f]
       ELSE SaveChildrenOrder(d, f, parentPath, newOrder)

\* addToChildrenOrder(parentPath, slug)
AddToChildrenOrder(d, f, parentPath, slug) ==
    LET siblings == GetSiblingOrder(d, f, parentPath)
    IN IF siblings.err THEN [dirs |-> d, files |-> f]
       ELSE IF \E i \in 1..Len(siblings.order) : siblings.order[i] = slug
            THEN [dirs |-> d, files |-> f]
       ELSE SaveChildrenOrder(d, f, parentPath,
                              Append(siblings.order, slug))

\* a containment test on the bare string prefix, without the separator
IntoSelfOrPrefixed(goalPath, newParentPath) ==
    \/ newParentPath = goalPath
    \/ HasPrefix(newParentPath, goalPath)

\* the self-or-descendant test of MoveGoal
IntoSelfOrDescendant(goalPath, newParentPath) ==
    \/ newParentPath = goalPath
    \/ HasPrefix(newParentPath, goalPath \o Separator)

\* a MoveGoal that rewrites the old parent's hint before the rename is tried
MoveGoalHintsFirst(d, f, goalPath, newParentPath) ==
    LET slug == Base(goalPath)
        oldParentPath == ParentPath(goalPath)
        newGoalPath == IF newParentPath = "" THEN slug
                       ELSE Join(newParentPath, slug)
        removed == RemoveFromChildrenOrder(d, f, oldParentPath, slug)
    IN IF IntoSelfOrDescendant(goalPath, newParentPath)
       THEN Result("into itself or a descendant", d, f)
       ELSE IF Exists(d, newGoalPath)
       THEN Result("already exists at destination", d, f)
       ELSE IF newParentPath # "" /\ ~Exists(d, newParentPath)
       THEN Result("destination parent does not exist", d, f)
       ELSE IF ~Exists(d, goalPath)
       THEN Result("moving goal directory", removed.dirs, removed.files)
       ELSE LET d1 == RenameDirs(removed.dirs, goalPath, newGoalPath)
                f1 == RenameFiles(removed.dirs, removed.files, goalPath,
                                  newGoalPath)
                added == AddToChildrenOrder(d1, f1, newParentPath, slug)
            IN Result("", added.dirs, added.files)

\* error returns of a MoveGoal that does not check that the destination
\* parent exists
MoveGoalErrNoParentCheck(d, goalPath, newParentPath) ==
    LET slug == Base(goalPath)
        newGoalPath == IF newParentPath = "" THEN slug
                       ELSE Join(newParentPath, slug)
    IN IF IntoSelfOrDescendant(goalPath, newParentPath)
       THEN "into itself or a descendant"
       ELSE IF Exists(d, newGoalPath)
       THEN "already exists at destination"
       ELSE IF ~Exists(d, goalPath)
       THEN "moving goal directory"
       ELSE ""

\* the error MoveGoal returns, "" for nil: the three checks made before the
\* rename, then the failure of os.Rename on a source that does not exist
MoveGoalErr(d, goalPath, newParentPath) ==
    LET slug == Base(goalPath)
        newGoalPath == IF newParentPath = "" THEN slug
                       ELSE Join(newParentPath, slug)
    IN IF IntoSelfOrDescendant(goalPath, newParentPath)
       THEN "into itself or a descendant"
       ELSE IF Exists(d, newGoalPath)
       THEN "already exists at destination"
       ELSE IF newParentPath # "" /\ ~Exists(d, newParentPath)
       THEN "destination parent does not exist"
       ELSE IF ~Exists(d, goalPath)
       THEN "moving goal directory"
       ELSE ""

\* MoveGoal(goalPath, newParentPath)
MoveGoal(d, f, goalPath, newParentPath) ==
    LET slug == Base(goalPath)
        oldParentPath == ParentPath(goalPath)
        newGoalPath == IF newParentPath = "" THEN slug
                       ELSE Join(newParentPath, slug)
        err == MoveGoalErr(d, goalPath, newParentPath)
    IN IF err # "" THEN Result(err, d, f)
       ELSE LET d1 == RenameDirs(d, goalPath, newGoalPath)
                f1 == RenameFiles(d, f, goalPath, newGoalPath)
                removed == RemoveFromChildrenOrder(d1, f1, oldParentPath, slug)
                added == AddToChildrenOrder(removed.dirs, removed.files,
                                            newParentPath, slug)
            IN Result("", added.dirs, added.files)

(***************************************************************************)
(* State                                                                   *)
(***************************************************************************)
\* a call record; the arguments are kept for the calls that return nil
Call(op, path, arg, err) ==
    [op |-> op, err |-> err,
     path |-> IF err = "" THEN path ELSE "",
     arg |-> IF err = "" THEN arg ELSE ""]

NoCall == Call("none", "", "", "")

\* the dates of the run, as formatted by time.Now().Format("2006-01-02")
FirstDay == "1"
NextDay == "2"

\* no watcher has been started
NotWatching == [done |-> TRUE]

\* no TUI has been started
NoView == <<>>

\* NewStore has made goals/
OthersAtStart ==
    /\ today = FirstDay
    /\ goalsDir = TRUE
    /\ watcher = NotWatching
    /\ observed = <<>>
    /\ view = NoView
    /\ returned = <<>>

\* the store right after NewStore on an empty data directory
Init ==
    /\ dirs = {}
    /\ files = [p \in {} |-> NoFile]
    /\ last = NoCall
    /\ tree = <<>>
    /\ calls = 0
    /\ OthersAtStart

\* paths a caller may name: the existing goals and every top-level name,
\* whether or not a goal of that name exists
CallPaths(d) == d \cup Slugs

WithinBounds(d) ==
    /\ Cardinality(d) <= MaxGoals
    /\ \A p \in d : Depth(p) <= MaxDepth

\* a run is a sequence of calls that return nil, ended by the first call
\* that returns an error (a rejected call leaves the disk as it was, so the
\* calls after it would only revisit the same disks)
Ready == calls < MaxCalls /\ last.err = ""

Called(op, path, arg, r) ==
    /\ WithinBounds(r.dirs)
    /\ dirs' = r.dirs
    /\ files' = r.files
    /\ last' = Call(op, path, arg, r.err)
    /\ calls' = calls + 1
    /\ UNCHANGED <<tree, others>>

CreateGoalCall ==
    /\ Ready
    /\ \E parentPath \in CallPaths(dirs) \cup {""}, slug \in ProposedSlugs :
          Called("CreateGoal", parentPath, slug,
                 CreateGoal(dirs, files, parentPath, slug))

DeleteGoalCall ==
    /\ Ready
    /\ \E goalPath \in CallPaths(dirs) :
          Called("DeleteGoal", goalPath, "",
                 DeleteGoal(dirs, files, goalPath))

DeltaName(delta) == IF delta = 1 THEN "+1" ELSE "-1"

ReorderGoalCall ==
    /\ Ready
    /\ \E goalPath \in CallPaths(dirs), delta \in {-1, 1} :
          Called("ReorderGoal", goalPath, DeltaName(delta),
                 ReorderGoal(dirs, files, goalPath, delta))

MoveGoalCall ==
    /\ Ready
    /\ \E goalPath \in CallPaths(dirs),
          newParentPath \in CallPaths(dirs) \cup {""} :
          Called("MoveGoal", goalPath, newParentPath,
                 MoveGoal(dirs, files, goalPath, newParentPath))

Next ==
    \/ CreateGoalCall
    \/ DeleteGoalCall
    \/ ReorderGoalCall
    \/ MoveGoalCall

Spec == Init /\ [][Next]_vars

(***************************************************************************)
(* Loading a data directory whose goal.md files were written by hand:      *)
(* top-level goals, children under one of them, and one goal.md (of        *)
(* goals/ or of a top-level goal) carrying an arbitrary children_order.    *)
(***************************************************************************)
Hints == UNION {[1..n -> HintNames] : n \in 0..MaxHint}

NewGoalFile(p) == GoalFile(Base(p), StatusIncomplete, HorizonFuture, <<>>, "")

\* top-level goals top, the goals kids under the goal named under, and the
\* hint in the goal.md of edited ("" is goals/goal.md)
WrittenDisk(top, kids, under, edited, hint) ==
    /\ kids # {} => under \in top
    /\ edited \in top \cup {""}
    /\ dirs = top \cup {Join(under, k) : k \in kids}
    /\ files = [p \in dirs \cup ({""} \cap {edited}) |->
                   IF p = ""
                   THEN GoalFile("", "", "", hint, "")
                   ELSE IF p = edited
                   THEN [NewGoalFile(p) EXCEPT !.order = hint]
                   ELSE NewGoalFile(p)]

InitDisk ==
    /\ \E top \in SUBSET Slugs, kids \in SUBSET Slugs,
          under \in Slugs, edited \in Slugs \cup {""}, hint \in Hints :
          WrittenDisk(top, kids, under, edited, hint)
    /\ last = NoCall
    /\ tree = <<>>
    /\ calls = 0
    /\ OthersAtStart

LoadGoalTreeCall ==
    /\ last.op = "none"
    /\ tree' = LoadGoalTree(dirs, files)
    /\ last' = Call("LoadGoalTree", "", "", "")
    /\ UNCHANGED <<dirs, files, calls, others>>

NextDisk == LoadGoalTreeCall

SpecDisk == InitDisk /\ [][NextDisk]_vars

(***************************************************************************)
(* The order of siblings as ReorderGoal and MoveGoal see it, beside the    *)
(* order of the loaded tree, on the same written disks.                    *)
(***************************************************************************)
\* getSiblingOrder of a parent, as ReorderGoal and MoveGoal call it for the
\* goal picked in the loaded tree
GetSiblingOrderCall ==
    /\ last.op = "LoadGoalTree"
    /\ returned = <<>>
    /\ \E parentPath \in dirs \cup Slugs \cup {""} :
          returned' = [parentPath |-> parentPath,
                       got |-> GetSiblingOrder(dirs, files, parentPath)]
    /\ UNCHANGED <<dirs, files, last, tree, calls, today, goalsDir, watcher,
                   observed, view>>

NextOrder ==
    \/ LoadGoalTreeCall
    \/ GetSiblingOrderCall

SpecOrder == InitDisk /\ [][NextOrder]_vars

(***************************************************************************)
(* Reordering on a hand-written disk: one ReorderGoal call in a store      *)
(* whose hint, at the root or in the goal.md of the one goal that has      *)
(* children, may be missing, stale, partial or repeat a name.              *)
(***************************************************************************)
\* the top-level goal given children; its name is the prefix of a sibling's
NestedParent == "a"

InitStored ==
    /\ \E top \in SUBSET Slugs, kids \in SUBSET Slugs,
          edited \in {"", NestedParent}, hint \in Hints :
          WrittenDisk(top, kids, NestedParent, edited, hint)
    /\ last = NoCall
    /\ tree = <<>>
    /\ calls = 0
    /\ OthersAtStart

ReorderStoredCall ==
    /\ last.op = "none"
    /\ \E goalPath \in CallPaths(dirs), delta \in {-1, 1} :
          LET r == ReorderGoal(dirs, files, goalPath, delta)
          IN /\ dirs' = r.dirs
             /\ files' = r.files
             /\ last' = Call("ReorderGoal", goalPath, DeltaName(delta), r.err)
             /\ calls' = calls + 1
             /\ UNCHANGED <<tree, others>>

NextStored == ReorderStoredCall

SpecReorder == InitStored /\ [][NextStored]_vars

(***************************************************************************)
(* Loading a damaged data directory: goal.md files may be missing or hold  *)
(* text that ParseFrontmatter rejects, and goals/ itself may be missing.   *)
(***************************************************************************)
\* a goal.md whose frontmatter is not closed or is not YAML
Unparseable == [kind |-> "unparseable"]

\* hints of the damaged disks: none, or one that puts b first and names a
\* directory that does not exist
DamagedHints == {<<>>, <<"b", "x", "a">>}

InitDamaged ==
    /\ \/ /\ goalsDir = TRUE
          /\ \E top \in SUBSET Slugs, kids \in SUBSET Slugs,
                edited \in {"", NestedParent}, hint \in DamagedHints :
                \E written \in [dirs : {top \cup {Join(NestedParent, k) : k \in kids}}] :
                \E absent \in SUBSET (written.dirs \cup {""}),
                   broken \in SUBSET (written.dirs \cup {""}) :
                   /\ kids # {} => NestedParent \in top
                   /\ edited \in top \cup {""}
                   /\ absent \cap broken = {}
                   /\ dirs = written.dirs
                   /\ files = [p \in (dirs \cup {""}) \ absent |->
                                 IF p \in broken THEN Unparseable
                                 ELSE IF p = ""
                                 THEN GoalFile("", "", "",
                                               IF edited = "" THEN hint ELSE <<>>, "")
                                 ELSE IF p = edited
                                 THEN [NewGoalFile(p) EXCEPT !.order = hint]
                                 ELSE NewGoalFile(p)]
       \/ /\ goalsDir = FALSE
          /\ dirs = {}
          /\ files = [p \in {} |-> NoFile]
    /\ last = NoCall
    /\ tree = <<>>
    /\ calls = 0
    /\ today = FirstDay
    /\ watcher = NotWatching
    /\ observed = <<>>
    /\ view = NoView
    /\ returned = <<>>

LoadDamagedCall ==
    /\ last.op = "none"
    /\ \E r \in {LoadGoalTreeFrom(goalsDir, dirs, files)} :
          /\ tree' = r.goals
          /\ last' = Call("LoadGoalTree", "", "", r.err)
    /\ calls' = calls + 1
    /\ UNCHANGED <<dirs, files, others>>

NextDamaged == LoadDamagedCall

SpecDamaged == InitDamaged /\ [][NextDamaged]_vars

(***************************************************************************)
(* Taking notes: AddNote calls on the goal "a" and on a goal that does not *)
(* exist, over two days; the goal starts with a body written by hand.      *)
(***************************************************************************)
\* number of AddNote calls in a run
MaxNotes == 3

\* note texts; the last one quotes the heading of the second day
NoteTexts == {"n", "m", "## 2"}

\* bodies before the first note: none, prose, a bare heading of the first
\* day, and a first-day section followed by prose
InitialBodies == {"", "intro", "## 1", "## 1\n- o\n\nend"}

InitNotes ==
    /\ dirs = {"a"}
    /\ \E body \in InitialBodies :
          files = [p \in {"a"} |-> [NewGoalFile(p) EXCEPT !.body = body]]
    /\ last = NoCall
    /\ tree = <<>>
    /\ calls = 0
    /\ OthersAtStart

AddNoteCall ==
    /\ calls < MaxNotes
    /\ last.err = ""
    /\ \E goalPath \in {"a", "b"}, text \in NoteTexts :
          LET r == AddNote(dirs, files, goalPath, text, today)
          IN /\ dirs' = r.dirs
             /\ files' = r.files
             /\ last' = Call("AddNote", goalPath, text, r.err)
    /\ calls' = calls + 1
    /\ UNCHANGED <<tree, others>>

\* midnight
DayPasses ==
    /\ today = FirstDay
    /\ today' = NextDay
    /\ UNCHANGED <<dirs, files, last, tree, calls, goalsDir, watcher, observed,
                   view, returned>>

NextNotes == AddNoteCall \/ DayPasses

SpecNotes == InitNotes /\ [][NextNotes]_vars

(***************************************************************************)
(* The file watcher (StartWatcher): fsnotify watches on directories, the   *)
(* Events channel, the goroutine that debounces with time.AfterFunc, and   *)
(* the cleanup function. Time is counted in ticks.                         *)
(***************************************************************************)
\* the quiet period (200 ms), in ticks
Quiet == 2
\* the last tick of a run
MaxTime == 5
\* file-system changes made during a run
MaxChanges == 4
\* directories under the root during a run, the root included
MaxWatchDirs == 4

WatchRoot == "data"
\* the directories there when StartWatcher walks the root
StartDirs == {"data", "data/goals", "data/.git"}
\* names of the directories made while the watcher runs
NewDirNames == {"x", ".y", "n.md"}

HiddenName(p) == HasPrefix(Base(p), ".")

\* filepath.Walk with SkipDir on hidden directories other than the root
WalkAdds(ds, root) ==
    {p \in ds : \A q \in ds : (p \in Subtree(ds, q) /\ q # root) => ~HiddenName(q)}

NoTimer == 0

\* a debounce that starts the new timer and leaves the old one running
DebounceNoStop(w) ==
    [w EXCEPT !.timers = @ \cup {[id |-> w.nextTimer, deadline |-> w.now + Quiet]},
              !.debounceTimer = w.nextTimer,
              !.nextTimer = @ + 1]

\* debounceTimer.Stop() when there is one, then time.AfterFunc(200 ms, send)
Debounce(w) ==
    [w EXCEPT !.timers = {t \in @ : t.id # w.debounceTimer}
                            \cup {[id |-> w.nextTimer, deadline |-> w.now + Quiet]},
              !.debounceTimer = w.nextTimer,
              !.nextTimer = @ + 1]

\* a loop that debounces on every event
HandleEventAnyName(w, event) ==
    LET debounced == Debounce(w)
    IN IF /\ event.op = "create"
          /\ event.name \in w.dirs
          /\ ~HiddenName(event.name)
       THEN [debounced EXCEPT !.watched = @ \cup {event.name}]
       ELSE debounced

\* one iteration of the goroutine's loop on the event it received
HandleEvent(w, event) ==
    IF ~HasSuffix(event.name, ".md") THEN w
    ELSE LET debounced == Debounce(w)
         IN IF /\ event.op = "create"
               /\ event.name \in w.dirs
               /\ ~HiddenName(event.name)
            THEN [debounced EXCEPT !.watched = @ \cup {event.name}]
            ELSE debounced

\* the state StartWatcher returns in
InitWatcher ==
    /\ dirs = {}
    /\ files = [p \in {} |-> NoFile]
    /\ last = NoCall
    /\ tree = <<>>
    /\ calls = 0
    /\ today = FirstDay
    /\ goalsDir = TRUE
    /\ watcher = [dirs |-> StartDirs, watched |-> WalkAdds(StartDirs, WatchRoot),
                  events |-> <<>>, timers |-> {}, debounceTimer |-> NoTimer,
                  nextTimer |-> 1, sent |-> 0, done |-> FALSE, now |-> 0,
                  changes |-> 0]
    /\ observed = [lastRelevant |-> 0, relevant |-> 0, bursts |-> 0,
                   sentAtCleanup |-> 0, createsSeen |-> {}]
    /\ view = NoView
    /\ returned = <<>>

\* fsnotify reports a change in a watched directory on the Events channel
Reported(w, inDir, event) ==
    IF inDir \in w.watched /\ ~w.done
    THEN [w EXCEPT !.events = Append(@, event), !.changes = @ + 1]
    ELSE [w EXCEPT !.changes = @ + 1]

\* somebody makes a directory under the root
MakeDir ==
    /\ watcher.changes < MaxChanges
    /\ Cardinality(watcher.dirs) < MaxWatchDirs
    /\ \E parent \in watcher.dirs, name \in NewDirNames :
          LET path == parent \o "/" \o name
          IN /\ path \notin watcher.dirs
             /\ watcher' = Reported([watcher EXCEPT !.dirs = @ \cup {path}],
                                    parent, [name |-> path, op |-> "create"])
    /\ UNCHANGED <<observed, storeVars>>

\* somebody writes the goal.md of a directory
WriteGoalFile ==
    /\ watcher.changes < MaxChanges
    /\ \E dir \in watcher.dirs :
          watcher' = Reported(watcher, dir,
                              [name |-> dir \o "/goal.md", op |-> "write"])
    /\ UNCHANGED <<observed, storeVars>>

\* the goroutine receives the next event
ReceiveEvent ==
    /\ ~watcher.done
    /\ watcher.events # <<>>
    /\ LET event == Head(watcher.events)
           relevant == HasSuffix(event.name, ".md")
       IN /\ watcher' = [HandleEvent(watcher, event) EXCEPT !.events = Tail(@)]
          /\ observed' =
                [observed EXCEPT
                    !.lastRelevant = IF relevant THEN watcher.now ELSE @,
                    !.relevant = IF relevant THEN @ + 1 ELSE @,
                    !.bursts = IF relevant /\ watcher.timers = {}
                               THEN @ + 1 ELSE @,
                    !.createsSeen = IF event.op = "create"
                                    THEN @ \cup {event.name} ELSE @]
    /\ UNCHANGED storeVars

\* a timer that has run its time calls program.Send(FileChangedMsg{})
TimerFires ==
    /\ \E t \in watcher.timers :
          /\ watcher.now >= t.deadline
          /\ watcher' = [watcher EXCEPT !.timers = @ \ {t}, !.sent = @ + 1]
    /\ UNCHANGED <<observed, storeVars>>

\* time passes, but not past the deadline of a timer that has not fired
Tick ==
    /\ watcher.now < MaxTime
    /\ \A t \in watcher.timers : watcher.now < t.deadline
    /\ watcher' = [watcher EXCEPT !.now = @ + 1]
    /\ UNCHANGED <<observed, storeVars>>

\* cleanup(): close(done) ends the goroutine, watcher.Close() ends the
\* watches and the channel
Cleanup ==
    /\ ~watcher.done
    /\ watcher' = [watcher EXCEPT !.done = TRUE, !.events = <<>>,
                                  !.watched = {}]
    /\ observed' = [observed EXCEPT !.sentAtCleanup = watcher.sent]
    /\ UNCHANGED storeVars

NextWatcher ==
    \/ MakeDir
    \/ WriteGoalFile
    \/ ReceiveEvent
    \/ TimerFires
    \/ Tick
    \/ Cleanup

SpecWatcher == InitWatcher /\ [][NextWatcher]_vars

(***************************************************************************)
(* The watcher with errors: fsnotify also reports errors of its own, on    *)
(* the Errors channel, and the goroutine receives them.                    *)
(***************************************************************************)
InitWatcherErrors ==
    /\ dirs = {}
    /\ files = [p \in {} |-> NoFile]
    /\ last = NoCall
    /\ tree = <<>>
    /\ calls = 0
    /\ today = FirstDay
    /\ goalsDir = TRUE
    /\ watcher = [dirs |-> StartDirs, watched |-> WalkAdds(StartDirs, WatchRoot),
                  events |-> <<>>, errors |-> 0, timers |-> {},
                  debounceTimer |-> NoTimer, nextTimer |-> 1, sent |-> 0,
                  done |-> FALSE, now |-> 0, changes |-> 0]
    /\ observed = [lastRelevant |-> 0, relevant |-> 0, bursts |-> 0,
                   sentAtCleanup |-> 0, createsSeen |-> {}, errorsSeen |-> 0]
    /\ view = NoView
    /\ returned = <<>>

\* fsnotify has an error to report: it waits on the Errors channel
ReportError ==
    /\ ~watcher.done
    /\ watcher.changes < MaxChanges
    /\ watcher.errors = 0
    /\ watcher' = [watcher EXCEPT !.errors = 1, !.changes = @ + 1]
    /\ UNCHANGED <<observed, storeVars>>

\* case <-watcher.Errors: the goroutine takes the error and goes on
ReceiveError ==
    /\ ~watcher.done
    /\ watcher.errors > 0
    /\ watcher' = [watcher EXCEPT !.errors = @ - 1]
    /\ observed' = [observed EXCEPT !.errorsSeen = @ + 1]
    /\ UNCHANGED storeVars

\* cleanup() of a watcher with an error waiting: Close drops it
CleanupErrors ==
    /\ ~watcher.done
    /\ watcher' = [watcher EXCEPT !.done = TRUE, !.events = <<>>,
                                  !.watched = {}, !.errors = 0]
    /\ observed' = [observed EXCEPT !.sentAtCleanup = watcher.sent]
    /\ UNCHANGED storeVars

NextWatcherErrors ==
    \/ MakeDir
    \/ WriteGoalFile
    \/ ReceiveEvent
    \/ ReportError
    \/ ReceiveError
    \/ TimerFires
    \/ Tick
    \/ CleanupErrors

SpecWatcherErrors == InitWatcherErrors /\ [][NextWatcherErrors]_vars

(***************************************************************************)
(* The TUI's projection of the goal tree (Model.rebuildVisible and the     *)
(* handlers that call it). Search mode is not entered: searchQuery stays   *)
(* "" as NewModel leaves it.                                               *)
(***************************************************************************)
\* items in queue.md
MaxQueue == 2

HorizonToday == "today"
HorizonTomorrow == "tomorrow"
Horizons == {HorizonToday, HorizonTomorrow, HorizonFuture}

\* the names queue.md may list: each may be a top-level goal, a goal that is
\* gone, and "ab" a sub-goal only
QueueNames == {"a", "ab"}
Queues == UNION {[1..n -> QueueNames] : n \in 0..MaxQueue}

displayName(g) == IF g.title # "" THEN g.title ELSE g.slug

\* a TreeItem that takes every goal for expanded
GoalItemAlwaysExpanded(g, depth, parentID, expandedState) ==
    [id |-> g.path, parentID |-> parentID, name |-> displayName(g),
     depth |-> depth, hasChildren |-> Len(g.children) > 0,
     isExpanded |-> TRUE, isSectionHeader |-> FALSE]

\* the TreeItem of a goal
GoalItem(g, depth, parentID, expandedState) ==
    [id |-> g.path, parentID |-> parentID, name |-> displayName(g),
     depth |-> depth, hasChildren |-> Len(g.children) > 0,
     isExpanded |-> g.path \in expandedState, isSectionHeader |-> FALSE]

\* the TreeItem of a section header
SectionHeader(id, name) ==
    [id |-> id, parentID |-> "", name |-> name, depth |-> 0,
     hasChildren |-> FALSE, isExpanded |-> FALSE, isSectionHeader |-> TRUE]

\* flattenGoals on goals[i..]: each goal, then its children when expanded
RECURSIVE flattenGoals(_, _, _, _, _)
flattenGoals(goals, i, depth, parentID, expandedState) ==
    IF i > Len(goals) THEN <<>>
    ELSE LET g == goals[i]
             item == GoalItem(g, depth, parentID, expandedState)
             below == IF item.hasChildren /\ item.isExpanded
                      THEN flattenGoals(g.children, 1, depth + 1, g.path,
                                        expandedState)
                      ELSE <<>>
         IN <<item>> \o below
                \o flattenGoals(goals, i + 1, depth, parentID, expandedState)

FlattenVisibleItems(goals, expandedState) ==
    flattenGoals(goals, 1, 0, "", expandedState)

\* one section of the grouped view: nothing for an empty group
Section(group, id, name, expandedState) ==
    IF Len(group) > 0
    THEN <<SectionHeader(id, name)>>
            \o flattenGoals(group, 1, 1, id, expandedState)
    ELSE <<>>

\* a grouping that leaves out the goals of no recognized horizon
FlattenWithHorizonGroupsStrict(goals, expandedState) ==
    LET todayGoals == SelectSeq(goals, LAMBDA g : g.horizon = HorizonToday)
        tomorrow == SelectSeq(goals, LAMBDA g : g.horizon = HorizonTomorrow)
        future == SelectSeq(goals, LAMBDA g : g.horizon = HorizonFuture)
    IN Section(todayGoals, "__header_today", "TODAY", expandedState)
        \o Section(tomorrow, "__header_tomorrow", "TOMORROW", expandedState)
        \o Section(future, "__header_future", "FUTURE", expandedState)

FlattenWithHorizonGroups(goals, expandedState) ==
    LET todayGoals == SelectSeq(goals, LAMBDA g : g.horizon = HorizonToday)
        tomorrow == SelectSeq(goals, LAMBDA g : g.horizon = HorizonTomorrow)
        future == SelectSeq(goals, LAMBDA g :
                                g.horizon \notin {HorizonToday, HorizonTomorrow})
    IN Section(todayGoals, "__header_today", "TODAY", expandedState)
        \o Section(tomorrow, "__header_tomorrow", "TOMORROW", expandedState)
        \o Section(future, "__header_future", "FUTURE", expandedState)

FilterVisibleItems(items, matchIDs, ancestorIDs) ==
    SelectSeq(items, LAMBDA item : item.id \in matchIDs \cup ancestorIDs)

\* the ID of the item under the cursor, "" when the cursor is on none
UnderCursorID(m) ==
    IF m.cursor >= 0 /\ m.cursor < Len(m.visibleItems)
    THEN m.visibleItems[m.cursor + 1].id
    ELSE ""

\* a selection that always takes the first queue item for the active one
GoalsToShowFirstItem(m) ==
    IF Len(m.queue) > 0 /\ m.activeQueue < Len(m.queue)
    THEN LET activeSlug == m.queue[1]
             hits == {i \in 1..Len(m.goals) : m.goals[i].slug = activeSlug}
         IN IF hits = {} THEN <<>>
            ELSE <<m.goals[CHOOSE i \in hits : \A j \in hits : i <= j]>>
    ELSE <<>>

\* goalsToShow before the fallback: the first top-level goal whose slug is
\* the active queue item (Items is indexed from 0)
GoalsToShow(m) ==
    IF Len(m.queue) > 0 /\ m.activeQueue < Len(m.queue)
    THEN LET activeSlug == m.queue[m.activeQueue + 1]
             hits == {i \in 1..Len(m.goals) : m.goals[i].slug = activeSlug}
         IN IF hits = {} THEN <<>>
            ELSE <<m.goals[CHOOSE i \in hits : \A j \in hits : i <= j]>>
    ELSE <<>>

\* the cursor (from 0) moved off a section header to the next goal row
SkipSectionHeaders(items, cursor) ==
    IF cursor < Len(items) /\ items[cursor + 1].isSectionHeader
    THEN LET rows == {i \in cursor..(Len(items) - 1) :
                         ~items[i + 1].isSectionHeader}
         IN IF rows = {} THEN cursor
            ELSE CHOOSE i \in rows : \A j \in rows : i <= j
    ELSE cursor

rebuildVisible(m) ==
    LET goalsToShow == GoalsToShow(m)
        flat == IF Len(goalsToShow) = 0
                THEN FlattenWithHorizonGroups(m.goals, m.expandedState)
                ELSE FlattenVisibleItems(goalsToShow, m.expandedState)
        items == IF m.searchQuery # ""
                 THEN FilterVisibleItems(flat, m.searchMatchIDs, m.searchAncIDs)
                 ELSE flat
        high == IF m.cursor >= Len(items) THEN Len(items) - 1 ELSE m.cursor
        clamped == IF high < 0 THEN 0 ELSE high
    IN [m EXCEPT !.visibleItems = items,
                 !.cursor = SkipSectionHeaders(items, clamped)]

\* reload with the Items LoadQueue finds in queue.md
reload(m, d, f, items) ==
    rebuildVisible([m EXCEPT !.goals = LoadGoalTree(d, f), !.queue = items])

\* the paths of the goals with children
RECURSIVE WithChildren(_, _)
WithChildren(goals, i) ==
    IF i > Len(goals) THEN {}
    ELSE (IF Len(goals[i].children) > 0 THEN {goals[i].path} ELSE {})
            \cup WithChildren(goals[i].children, 1)
            \cup WithChildren(goals, i + 1)

expandAll(m) ==
    rebuildVisible([m EXCEPT !.expandedState = @ \cup WithChildren(m.goals, 1)])

\* NewModel on a store whose top-level goals have any horizons
InitView ==
    /\ \E top \in SUBSET Slugs, kids \in SUBSET {"ab", "b"},
          horizon \in [Slugs -> Horizons] :
          /\ kids # {} => NestedParent \in top
          /\ dirs = top \cup {Join(NestedParent, k) : k \in kids}
          /\ files = [p \in dirs |->
                         IF p \in top
                         THEN [NewGoalFile(p) EXCEPT !.horizon = horizon[p]]
                         ELSE NewGoalFile(p)]
          /\ \A p \in Slugs \ top : horizon[p] = HorizonFuture
    /\ last = NoCall
    /\ tree = <<>>
    /\ calls = 0
    /\ today = FirstDay
    /\ goalsDir = TRUE
    /\ watcher = NotWatching
    /\ observed = <<>>
    /\ returned = <<>>
    /\ view = [goals |-> <<>>, queue |-> <<>>, visibleItems |-> <<>>,
               expandedState |-> {}, cursor |-> 0, activeQueue |-> 0,
               searchQuery |-> "", searchMatchIDs |-> {}, searchAncIDs |-> {},
               isSearching |-> FALSE, showDeleteConfirm |-> FALSE,
               deleteTarget |-> ""]

\* handleKeyMsg gets to the keys of the normal mode: the search bar is closed
\* and no delete waits for its confirmation
NormalMode == ~view.isSearching /\ ~view.showDeleteConfirm

viewFrame == <<dirs, files, last, tree, calls, today, goalsDir, watcher,
               observed, returned>>

\* Update on FileChangedMsg; queue.md holds any list of names by then
FileChanged ==
    /\ \E items \in Queues : view' = reload(view, dirs, files, items)
    /\ UNCHANGED viewFrame

NextQueueKey ==
    /\ NormalMode
    /\ Len(view.queue) > 0
    /\ view' = rebuildVisible(
                  [view EXCEPT !.activeQueue = (@ + 1) % Len(view.queue),
                               !.cursor = 0])
    /\ UNCHANGED viewFrame

PrevQueueKey ==
    /\ NormalMode
    /\ Len(view.queue) > 0
    /\ view' = rebuildVisible(
                  [view EXCEPT !.activeQueue =
                                   (@ - 1 + Len(view.queue)) % Len(view.queue),
                               !.cursor = 0])
    /\ UNCHANGED viewFrame

\* Down in the tree pane
DownKey ==
    /\ NormalMode
    /\ view.cursor < Len(view.visibleItems) - 1
    /\ LET n == Len(view.visibleItems)
           c == view.cursor + 1
       IN view' = [view EXCEPT !.cursor =
                      IF c < n /\ view.visibleItems[c + 1].isSectionHeader
                      THEN IF c < n - 1 THEN c + 1 ELSE c - 1
                      ELSE c]
    /\ UNCHANGED viewFrame

RightKey ==
    /\ NormalMode
    /\ view.cursor < Len(view.visibleItems)
    /\ view.visibleItems[view.cursor + 1].hasChildren
    /\ view' = rebuildVisible(
                  [view EXCEPT !.expandedState =
                                   @ \cup {view.visibleItems[view.cursor + 1].id}])
    /\ UNCHANGED viewFrame

\* a Left that also forgets the expansion of the goals below
LeftKeyForgetsBelow ==
    /\ NormalMode
    /\ view.cursor < Len(view.visibleItems)
    /\ view.visibleItems[view.cursor + 1].isExpanded
    /\ view' = rebuildVisible(
                  [view EXCEPT !.expandedState =
                      @ \ Subtree(@, view.visibleItems[view.cursor + 1].id)])
    /\ UNCHANGED viewFrame

LeftKey ==
    /\ NormalMode
    /\ view.cursor < Len(view.visibleItems)
    /\ view.visibleItems[view.cursor + 1].isExpanded
    /\ view' = rebuildVisible(
                  [view EXCEPT !.expandedState =
                                   @ \ {view.visibleItems[view.cursor + 1].id}])
    /\ UNCHANGED viewFrame

ExpandAllKey ==
    /\ NormalMode
    /\ view' = expandAll(view)
    /\ UNCHANGED viewFrame

NextView ==
    \/ FileChanged
    \/ NextQueueKey
    \/ PrevQueueKey
    \/ DownKey
    \/ RightKey
    \/ LeftKey
    \/ ExpandAllKey

SpecView == InitView /\ [][NextView]_vars

(***************************************************************************)
(* Flattening on deeper trees: goals three deep, top-level goals of any    *)
(* horizon, the empty and an unrecognized one included. queue.md is empty  *)
(* or lists the one goal that has children.                                *)
(***************************************************************************)
\* horizon values a goal.md may hold
WrittenHorizons == Horizons \cup {"", "someday"}

\* the goals below NestedParent: none, or some of ab, b and b/a
Shapes == {kids \in SUBSET {"ab", "b", "b/a"} : "b/a" \in kids => "b" \in kids}

InitFlat ==
    /\ \E top \in SUBSET Slugs, kids \in Shapes,
          horizon \in [Slugs -> WrittenHorizons] :
          /\ kids # {} => NestedParent \in top
          /\ dirs = top \cup {Join(NestedParent, k) : k \in kids}
          /\ files = [p \in dirs |->
                         IF p \in top
                         THEN [NewGoalFile(p) EXCEPT !.horizon = horizon[p]]
                         ELSE NewGoalFile(p)]
          /\ \A p \in Slugs \ top : horizon[p] = HorizonFuture
    /\ last = NoCall
    /\ tree = <<>>
    /\ calls = 0
    /\ today = FirstDay
    /\ goalsDir = TRUE
    /\ watcher = NotWatching
    /\ observed = <<>>
    /\ returned = <<>>
    /\ view = [goals |-> <<>>, queue |-> <<>>, visibleItems |-> <<>>,
               expandedState |-> {}, cursor |-> 0, activeQueue |-> 0,
               searchQuery |-> "", searchMatchIDs |-> {}, searchAncIDs |-> {},
               isSearching |-> FALSE, showDeleteConfirm |-> FALSE,
               deleteTarget |-> ""]

\* the Reload key
ReloadKey ==
    /\ NormalMode
    /\ \E items \in {<<>>, <<NestedParent>>} :
          view' = reload(view, dirs, files, items)
    /\ UNCHANGED viewFrame

\* Enter on a goal with children toggles its expansion
EnterKey ==
    /\ NormalMode
    /\ view.searchQuery = ""
    /\ view.cursor < Len(view.visibleItems)
    /\ LET item == view.visibleItems[view.cursor + 1]
       IN /\ ~item.isSectionHeader
          /\ item.hasChildren
          /\ view' = rebuildVisible(
                        [view EXCEPT !.expandedState =
                            IF item.id \in @ THEN @ \ {item.id}
                            ELSE @ \cup {item.id}])
    /\ UNCHANGED viewFrame

NextFlat ==
    \/ ReloadKey
    \/ DownKey
    \/ RightKey
    \/ LeftKey
    \/ EnterKey
    \/ ExpandAllKey

SpecFlat == InitFlat /\ [][NextFlat]_vars

(***************************************************************************)
(* The search filter: the Search key, typing in the search bar, leaving    *)
(* it with the filter kept, and the keys of the normal mode while a filter *)
(* is active. Where rebuildVisible tests the two ID maps for nil, the      *)
(* query is tested: applySearchFilter makes both maps whenever it leaves   *)
(* the query non-empty.                                                    *)
(***************************************************************************)
\* characters of a query
MaxQuery == 2
\* horizon keys pressed in a run
MaxHorizonKeys == 1

\* what the Search bar is given
Runes == {"a", "B"}

\* addSearchAncestors: parentID and the ancestors above it, up to the first
\* one recorded already
RECURSIVE addSearchAncestors(_, _, _)
addSearchAncestors(parentID, allItems, ancIDs) ==
    IF parentID = "" \/ parentID \in ancIDs THEN ancIDs
    ELSE LET hits == {k \in 1..Len(allItems) : allItems[k].id = parentID}
             added == ancIDs \cup {parentID}
         IN IF hits = {} THEN added
            ELSE LET item == allItems[CHOOSE k \in hits : \A j \in hits : k <= j]
                 IN IF item.parentID # ""
                    THEN addSearchAncestors(item.parentID, allItems, added)
                    ELSE added

\* the loop of applySearchFilter over allItems[i..]
RECURSIVE searchWalk(_, _, _, _)
searchWalk(allItems, i, query, found) ==
    IF i > Len(allItems) THEN found
    ELSE LET item == allItems[i]
         IN IF ~item.isSectionHeader /\ Contains(ToLower(item.name), query)
            THEN searchWalk(allItems, i + 1, query,
                     [matchIDs |-> found.matchIDs \cup {item.id},
                      ancIDs |-> addSearchAncestors(item.parentID, allItems,
                                                    found.ancIDs)])
            ELSE searchWalk(allItems, i + 1, query, found)

\* the items applySearchFilter walks: the projection before filtering
searchItems(m) ==
    IF Len(GoalsToShow(m)) = 0
    THEN FlattenWithHorizonGroups(m.goals, m.expandedState)
    ELSE FlattenVisibleItems(GoalsToShow(m), m.expandedState)

\* every recorded ancestor is put in expandedState as well
applySearchFilter(m) ==
    IF m.searchQuery = ""
    THEN [m EXCEPT !.searchMatchIDs = {}, !.searchAncIDs = {}]
    ELSE LET found == searchWalk(searchItems(m), 1, ToLower(m.searchQuery),
                                 [matchIDs |-> {}, ancIDs |-> {}])
         IN [m EXCEPT !.searchMatchIDs = found.matchIDs,
                      !.searchAncIDs = found.ancIDs,
                      !.expandedState = @ \cup found.ancIDs]

\* a toggle that knows two statuses only
ToggleStatusTwoState(d, f, goalPath) ==
    LET loaded == LoadGoal(d, f, goalPath)
    IN IF loaded.err THEN Result("reading goal", d, f)
       ELSE Result("", SaveGoalDirs(d, goalPath),
                   SaveGoalFiles(f, goalPath,
                       [loaded.goal EXCEPT !.status =
                           IF @ = StatusIncomplete THEN StatusComplete
                           ELSE StatusIncomplete]))

\* ToggleStatus: LoadGoal, the next status of the cycle, SaveGoal
ToggleStatus(d, f, goalPath) ==
    LET loaded == LoadGoal(d, f, goalPath)
    IN IF loaded.err THEN Result("reading goal", d, f)
       ELSE Result("", SaveGoalDirs(d, goalPath),
                   SaveGoalFiles(f, goalPath,
                       [loaded.goal EXCEPT !.status =
                           IF @ = StatusIncomplete THEN StatusInProgress
                           ELSE IF @ = StatusInProgress THEN StatusComplete
                           ELSE StatusIncomplete]))

\* a SetHorizon that saves a goal with nothing but the horizon carried over
SetHorizonFreshGoal(d, f, goalPath, horizon) ==
    LET loaded == LoadGoal(d, f, goalPath)
    IN IF loaded.err THEN Result("reading goal", d, f)
       ELSE Result("", SaveGoalDirs(d, goalPath),
                   SaveGoalFiles(f, goalPath,
                       [loaded.goal EXCEPT !.horizon = horizon,
                                           !.title = "", !.body = ""]))

\* SetHorizon: LoadGoal, set Horizon, SaveGoal
SetHorizon(d, f, goalPath, horizon) ==
    LET loaded == LoadGoal(d, f, goalPath)
    IN IF loaded.err THEN Result("reading goal", d, f)
       ELSE Result("", SaveGoalDirs(d, goalPath),
                   SaveGoalFiles(f, goalPath,
                                 [loaded.goal EXCEPT !.horizon = horizon]))

\* "b" is titled in upper case
TitledGoalFile(p) ==
    IF p = "b" THEN [NewGoalFile(p) EXCEPT !.title = "B"] ELSE NewGoalFile(p)

\* NewModel and the first reload on a store with the goals a and b, goals
\* below a, and any recognized horizons at the top
InitSearch ==
    /\ \E kids \in Shapes \ {{}}, horizon \in [{"a", "b"} -> Horizons] :
          /\ dirs = {"a", "b"} \cup {Join(NestedParent, k) : k \in kids}
          /\ files = [p \in dirs |->
                         IF p \in {"a", "b"}
                         THEN [TitledGoalFile(p) EXCEPT !.horizon = horizon[p]]
                         ELSE TitledGoalFile(p)]
          /\ view = reload([goals |-> <<>>, queue |-> <<>>,
                            visibleItems |-> <<>>, expandedState |-> {},
                            cursor |-> 0, activeQueue |-> 0, searchQuery |-> "",
                            searchMatchIDs |-> {}, searchAncIDs |-> {},
                            isSearching |-> FALSE, showDeleteConfirm |-> FALSE,
               deleteTarget |-> ""], dirs, files, <<>>)
    /\ last = NoCall
    /\ tree = <<>>
    /\ calls = 0
    /\ today = FirstDay
    /\ goalsDir = TRUE
    /\ watcher = NotWatching
    /\ observed = <<>>
    /\ returned = <<>>

searchFrame == <<last, tree, today, goalsDir, watcher, observed, returned>>

\* the Search key opens the search bar and drops the filter
SearchKey ==
    /\ NormalMode
    /\ view.searchQuery = ""
    /\ view' = [view EXCEPT !.isSearching = TRUE, !.searchQuery = "",
                            !.searchMatchIDs = {}, !.searchAncIDs = {}]
    /\ UNCHANGED <<dirs, files, calls, searchFrame>>

\* handleSearchInput on runes
TypeRunes ==
    /\ view.isSearching
    /\ Len(view.searchQuery) < MaxQuery
    /\ \E runes \in Runes :
          view' = rebuildVisible(applySearchFilter(
                      [view EXCEPT !.searchQuery = @ \o runes]))
    /\ UNCHANGED <<dirs, files, calls, searchFrame>>

\* handleSearchInput on Backspace
BackspaceKey ==
    /\ view.isSearching
    /\ view' = rebuildVisible(applySearchFilter(
                  [view EXCEPT !.searchQuery =
                      IF Len(@) > 0 THEN SubSeq(@, 1, Len(@) - 1) ELSE @]))
    /\ UNCHANGED <<dirs, files, calls, searchFrame>>

\* handleSearchInput on Esc: the search bar and the filter go
SearchEscKey ==
    /\ view.isSearching
    /\ view' = rebuildVisible(
                  [view EXCEPT !.isSearching = FALSE, !.searchQuery = "",
                               !.searchMatchIDs = {}, !.searchAncIDs = {}])
    /\ UNCHANGED <<dirs, files, calls, searchFrame>>

\* handleSearchInput on Enter, Down or Tab: the filter stays
SearchEnterKey ==
    /\ view.isSearching
    /\ view' = [view EXCEPT !.isSearching = FALSE]
    /\ UNCHANGED <<dirs, files, calls, searchFrame>>

\* Esc or Enter in normal mode with a filter: the filter goes, the cursor
\* stays on its item
ClearFilterKey ==
    /\ NormalMode
    /\ view.searchQuery # ""
    /\ LET curID == UnderCursorID(view)
           cleared == rebuildVisible(
                          [view EXCEPT !.searchQuery = "",
                                       !.searchMatchIDs = {},
                                       !.searchAncIDs = {}])
           rows == {k \in 1..Len(cleared.visibleItems) :
                       cleared.visibleItems[k].id = curID}
       IN view' = IF curID # "" /\ rows # {}
                  THEN [cleared EXCEPT !.cursor =
                           (CHOOSE k \in rows : \A j \in rows : k <= j) - 1]
                  ELSE cleared
    /\ UNCHANGED <<dirs, files, calls, searchFrame>>

\* the Today, Tomorrow and Future keys: SetHorizon on the item under the
\* cursor, then reload (queue.md as it was)
HorizonKey ==
    /\ NormalMode
    /\ calls < MaxHorizonKeys
    /\ view.cursor < Len(view.visibleItems)
    /\ ~view.visibleItems[view.cursor + 1].isSectionHeader
    /\ \E horizon \in Horizons :
          LET r == SetHorizon(dirs, files,
                              view.visibleItems[view.cursor + 1].id, horizon)
          IN /\ r.err = ""
             /\ dirs' = r.dirs
             /\ files' = r.files
             /\ view' = reload(view, r.dirs, r.files, view.queue)
    /\ calls' = calls + 1
    /\ UNCHANGED searchFrame

NextSearch ==
    \/ SearchKey
    \/ TypeRunes
    \/ BackspaceKey
    \/ SearchEscKey
    \/ SearchEnterKey
    \/ ClearFilterKey
    \/ HorizonKey
    \/ ReloadKey
    \/ DownKey
    \/ RightKey
    \/ LeftKey

SpecSearch == InitSearch /\ [][NextSearch]_vars

(***************************************************************************)
(* Searching with a queue: the search keys and the queue keys on a store   *)
(* with the goals a and b and a queue.md that names them.                  *)
(***************************************************************************)
QueuedNames == {<<"a">>, <<"b", "a">>, <<"x", "b">>}

InitScope ==
    /\ \E kids \in Shapes, items \in QueuedNames :
          /\ dirs = {"a", "b"} \cup {Join(NestedParent, k) : k \in kids}
          /\ files = [p \in dirs |-> TitledGoalFile(p)]
          /\ view = reload([goals |-> <<>>, queue |-> <<>>,
                            visibleItems |-> <<>>, expandedState |-> {},
                            cursor |-> 0, activeQueue |-> 0, searchQuery |-> "",
                            searchMatchIDs |-> {}, searchAncIDs |-> {},
                            isSearching |-> FALSE, showDeleteConfirm |-> FALSE,
               deleteTarget |-> ""], dirs, files, items)
    /\ last = NoCall
    /\ tree = <<>>
    /\ calls = 0
    /\ today = FirstDay
    /\ goalsDir = TRUE
    /\ watcher = NotWatching
    /\ observed = <<>>
    /\ returned = <<>>

NextScope ==
    \/ SearchKey
    \/ TypeRunes
    \/ BackspaceKey
    \/ SearchEscKey
    \/ SearchEnterKey
    \/ ClearFilterKey
    \/ NextQueueKey
    \/ PrevQueueKey
    \/ DownKey
    \/ RightKey
    \/ LeftKey

SpecScope == InitScope /\ [][NextScope]_vars

(***************************************************************************)
(* The cursor: the keys that move it, the search keys, and the keys that   *)
(* call the store with the goal of the row under it, on a store with the   *)
(* goals a and b.                                                          *)
(***************************************************************************)
\* NewModel and the first reload on a store with the goals a, a/b and b,
\* each of a and b for today or for later
InitCursor ==
    /\ \E horizon \in [{"a", "b"} -> {HorizonToday, HorizonFuture}] :
          /\ dirs = {"a", "b", Join(NestedParent, "b")}
          /\ files = [p \in dirs |->
                         IF p \in {"a", "b"}
                         THEN [TitledGoalFile(p) EXCEPT !.horizon = horizon[p]]
                         ELSE TitledGoalFile(p)]
          /\ view = reload([goals |-> <<>>, queue |-> <<>>,
                            visibleItems |-> <<>>, expandedState |-> {},
                            cursor |-> 0, activeQueue |-> 0, searchQuery |-> "",
                            searchMatchIDs |-> {}, searchAncIDs |-> {},
                            isSearching |-> FALSE, showDeleteConfirm |-> FALSE,
                            deleteTarget |-> ""], dirs, files, <<>>)
    /\ last = NoCall
    /\ tree = <<>>
    /\ calls = 0
    /\ today = FirstDay
    /\ goalsDir = TRUE
    /\ watcher = NotWatching
    /\ observed = <<>>
    /\ returned = <<>>

\* item.Goal.Path: the Goal of a section header is &store.Goal{}
GoalPathOf(item) == IF item.isSectionHeader THEN "" ELSE item.id

\* Up in the tree pane
UpKey ==
    /\ NormalMode
    /\ view.cursor > 0
    /\ LET n == Len(view.visibleItems)
           c == view.cursor - 1
       IN view' = [view EXCEPT !.cursor =
                      IF c >= 0 /\ c < n /\ view.visibleItems[c + 1].isSectionHeader
                      THEN IF c > 0 THEN c - 1 ELSE c + 1
                      ELSE c]
    /\ UNCHANGED viewFrame

\* the Delete key: the confirmation is asked for the goal of the row
DeleteKey ==
    /\ NormalMode
    /\ view.cursor < Len(view.visibleItems)
    /\ view' = [view EXCEPT
                   !.deleteTarget = GoalPathOf(view.visibleItems[view.cursor + 1]),
                   !.showDeleteConfirm = TRUE]
    /\ UNCHANGED viewFrame

\* y at the confirmation: DeleteGoal, and on success reload
ConfirmDeleteKey ==
    /\ view.showDeleteConfirm
    /\ calls < MaxCalls
    /\ LET r == DeleteGoal(dirs, files, view.deleteTarget)
           present == goalsDir /\ ~(r.err = "" /\ view.deleteTarget = "")
           loaded == reload(view, r.dirs, r.files, view.queue)
           moved == IF loaded.cursor >= Len(loaded.visibleItems)
                       /\ loaded.cursor > 0
                    THEN [loaded EXCEPT !.cursor = @ - 1]
                    ELSE loaded
       IN /\ dirs' = r.dirs
          /\ files' = r.files
          /\ goalsDir' = present
          /\ last' = [op |-> "DeleteGoal", err |-> r.err,
                      path |-> view.deleteTarget, arg |-> ""]
          /\ view' = [(IF r.err = "" THEN moved ELSE view)
                         EXCEPT !.showDeleteConfirm = FALSE]
    /\ calls' = calls + 1
    /\ UNCHANGED <<tree, today, watcher, observed, returned>>

\* n or Esc at the confirmation
CancelDeleteKey ==
    /\ view.showDeleteConfirm
    /\ view' = [view EXCEPT !.showDeleteConfirm = FALSE]
    /\ UNCHANGED viewFrame

\* the Space key: ToggleStatus of the goal of the row, and on success reload
SpaceKey ==
    /\ NormalMode
    /\ calls < MaxCalls
    /\ view.cursor < Len(view.visibleItems)
    /\ LET goalPath == GoalPathOf(view.visibleItems[view.cursor + 1])
           r == ToggleStatus(dirs, files, goalPath)
       IN /\ dirs' = r.dirs
          /\ files' = r.files
          /\ last' = [op |-> "ToggleStatus", err |-> r.err,
                      path |-> goalPath, arg |-> ""]
          /\ view' = IF r.err = ""
                     THEN reload(view, r.dirs, r.files, view.queue)
                     ELSE view
    /\ calls' = calls + 1
    /\ UNCHANGED <<tree, today, goalsDir, watcher, observed, returned>>

NextCursor ==
    \/ SearchKey
    \/ TypeRunes
    \/ BackspaceKey
    \/ SearchEscKey
    \/ SearchEnterKey
    \/ ClearFilterKey
    \/ UpKey
    \/ DownKey
    \/ RightKey
    \/ LeftKey
    \/ DeleteKey
    \/ ConfirmDeleteKey
    \/ CancelDeleteKey
    \/ SpaceKey
    \/ ReloadKey

SpecCursor == InitCursor /\ [][NextCursor]_vars

(***************************************************************************)
(* Status and horizon: ToggleStatus and SetHorizon calls on a store whose  *)
(* goal a was written with any status, horizon, body, tags, links and     *)
(* children_order, and whose directory b may have no goal.md.             *)
(***************************************************************************)
\* status values a goal.md may hold; "paused" is none of the three
WrittenStatuses == {StatusIncomplete, StatusInProgress, StatusComplete, "paused"}

\* a goal.md with tags and links
TaggedGoalFile(title, status, horizon, order, body, tags, links) ==
    [kind |-> "goal", title |-> title, status |-> status, horizon |-> horizon,
     order |-> order, body |-> body, tags |-> tags, links |-> links]

\* no run of toggles yet
NoToggles == [path |-> "", count |-> 0, first |-> ""]

InitStatus ==
    /\ \E extra \in SUBSET {"b", "a/b"}, written \in SUBSET {"b"},
          status \in WrittenStatuses, horizon \in {HorizonToday, ""},
          body \in InitialBodies, tagged \in BOOLEAN :
          /\ dirs = {"a"} \cup extra
          /\ files = [p \in dirs \ ({"b"} \ written) |->
                         IF p = "a"
                         THEN TaggedGoalFile("a", status, horizon,
                                  IF tagged THEN <<"b">> ELSE <<>>, body,
                                  IF tagged THEN <<"t">> ELSE <<>>,
                                  IF tagged THEN <<<<"k", "u">>>> ELSE <<>>)
                         ELSE TaggedGoalFile(Base(p), StatusIncomplete,
                                  HorizonFuture, <<>>, "", <<>>, <<>>)]
    /\ last = NoCall
    /\ tree = <<>>
    /\ calls = 0
    /\ today = FirstDay
    /\ goalsDir = TRUE
    /\ watcher = NotWatching
    /\ observed = NoToggles
    /\ view = NoView
    /\ returned = <<>>

statusFrame == <<tree, today, goalsDir, watcher, view, returned>>

\* a ToggleStatus call; observed follows the run of toggles of one goal
ToggleStatusCall ==
    /\ Ready
    /\ \E goalPath \in CallPaths(dirs) :
          LET r == ToggleStatus(dirs, files, goalPath)
          IN /\ dirs' = r.dirs
             /\ files' = r.files
             /\ last' = Call("ToggleStatus", goalPath, "", r.err)
             /\ observed' =
                   IF r.err # "" THEN NoToggles
                   ELSE IF observed.path = goalPath /\ observed.count > 0
                   THEN [observed EXCEPT !.count = @ + 1]
                   ELSE [path |-> goalPath, count |-> 1,
                         first |-> LoadGoal(dirs, files, goalPath).goal.status]
    /\ calls' = calls + 1
    /\ UNCHANGED statusFrame

SetHorizonCall ==
    /\ Ready
    /\ \E goalPath \in CallPaths(dirs), horizon \in Horizons :
          LET r == SetHorizon(dirs, files, goalPath, horizon)
          IN /\ dirs' = r.dirs
             /\ files' = r.files
             /\ last' = Call("SetHorizon", goalPath, horizon, r.err)
    /\ observed' = NoToggles
    /\ calls' = calls + 1
    /\ UNCHANGED statusFrame

NextStatus ==
    \/ ToggleStatusCall
    \/ SetHorizonCall

SpecStatus == InitStatus /\ [][NextStatus]_vars

(***************************************************************************)
(* SearchNotes and GoalsByHorizon: one call on a store whose goals, three  *)
(* deep, were written with titles and bodies in mixed case and with any    *)
(* horizon at every depth.                                                 *)
(***************************************************************************)
\* the search closure of SearchNotes on goals[i..]: depth first, children
\* searched whether or not the goal matched
RECURSIVE search(_, _, _)
search(goals, i, query) ==
    IF i > Len(goals) THEN <<>>
    ELSE LET g == goals[i]
             hit == \/ Contains(ToLower(g.title), query)
                    \/ Contains(ToLower(g.body), query)
         IN (IF hit THEN <<g>> ELSE <<>>) \o search(g.children, 1, query)
                \o search(goals, i + 1, query)

\* a search that compares with the query as typed
SearchNotesCaseSensitive(d, f, query) ==
    search(LoadGoalTree(d, f), 1, query)

SearchNotes(d, f, query) ==
    search(LoadGoalTree(d, f), 1, ToLower(query))

\* the categorize closure of GoalsByHorizon on goals[i..]
RECURSIVE categorize(_, _, _)
categorize(goals, i, groups) ==
    IF i > Len(goals) THEN groups
    ELSE LET g == goals[i]
             added == IF g.horizon = HorizonToday
                      THEN [groups EXCEPT !.today = Append(@, g)]
                      ELSE IF g.horizon = HorizonTomorrow
                      THEN [groups EXCEPT !.tomorrow = Append(@, g)]
                      ELSE [groups EXCEPT !.future = Append(@, g)]
         IN categorize(goals, i + 1, categorize(g.children, 1, added))

\* a grouping of the top-level goals only
GoalsByHorizonTopLevel(d, f) ==
    LET allGoals == LoadGoalTree(d, f)
    IN [today |-> SelectSeq(allGoals, LAMBDA g : g.horizon = HorizonToday),
        tomorrow |-> SelectSeq(allGoals, LAMBDA g : g.horizon = HorizonTomorrow),
        future |-> SelectSeq(allGoals, LAMBDA g :
                       g.horizon \notin {HorizonToday, HorizonTomorrow})]

GoalsByHorizon(d, f) ==
    categorize(LoadGoalTree(d, f), 1,
               [today |-> <<>>, tomorrow |-> <<>>, future |-> <<>>])

\* what SearchNotes is asked for
Queries == {"", "b", "B", "a b", "ab"}

InitQueries ==
    /\ \E extra \in SUBSET {"b"}, kids \in Shapes,
          title \in {"a", "A b"}, body \in {"", "x B"},
          horizon \in WrittenHorizons, below \in Horizons,
          deep \in {HorizonToday, ""}, deepBody \in {"", "x B"} :
          /\ dirs = {"a"} \cup extra \cup {Join(NestedParent, k) : k \in kids}
          /\ files = [p \in dirs |->
                         IF p = "a"
                         THEN GoalFile(title, StatusIncomplete, horizon, <<>>, body)
                         ELSE IF p = "a/b"
                         THEN [NewGoalFile(p) EXCEPT !.horizon = below]
                         ELSE IF p = "a/b/a"
                         THEN [NewGoalFile(p) EXCEPT !.horizon = deep,
                                                     !.body = deepBody]
                         ELSE NewGoalFile(p)]
          /\ "b" \notin kids => below = HorizonFuture
          /\ "b/a" \notin kids => (deep = "" /\ deepBody = "")
    /\ last = NoCall
    /\ tree = <<>>
    /\ calls = 0
    /\ today = FirstDay
    /\ goalsDir = TRUE
    /\ watcher = NotWatching
    /\ observed = <<>>
    /\ view = NoView
    /\ returned = <<>>

queriesFrame == <<dirs, files, tree, today, goalsDir, watcher, observed, view>>

SearchNotesCall ==
    /\ last.op = "none"
    /\ \E query \in Queries :
          /\ returned' = SearchNotes(dirs, files, query)
          /\ last' = Call("SearchNotes", "", query, "")
    /\ calls' = calls + 1
    /\ UNCHANGED queriesFrame

GoalsByHorizonCall ==
    /\ last.op = "none"
    /\ returned' = GoalsByHorizon(dirs, files)
    /\ last' = Call("GoalsByHorizon", "", "", "")
    /\ calls' = calls + 1
    /\ UNCHANGED queriesFrame

NextQueries ==
    \/ SearchNotesCall
    \/ GoalsByHorizonCall

SpecQueries == InitQueries /\ [][NextQueries]_vars

(***************************************************************************)
(* The frontmatter codec on text: SerializeFrontmatter writes a Goal as    *)
(* the YAML that yaml.v3 emits between two "---" lines, followed by the    *)
(* body; ParseFrontmatter reads such a text back.  yaml.v3 writes a string *)
(* with a line break in it as a literal block scalar, a string that can be *)
(* read as nothing else as a plain scalar, and any other string in quotes. *)
(***************************************************************************)
frontmatterDelimiter == "---"

\* the lines of a text, cut at the newlines
RECURSIVE YamlLines(_)
YamlLines(text) ==
    LET idx == Index(text, "\n")
    IN IF idx = 0 THEN <<text>>
       ELSE <<SubSeq(text, 1, idx - 1)>>
                \o YamlLines(SubSeq(text, idx + 1, Len(text)))

\* strings.TrimRight(s, "\n")
RECURSIVE TrimRightNewlines(_)
TrimRightNewlines(s) ==
    IF s # "" /\ CharAt(s, Len(s)) = "\n"
    THEN TrimRightNewlines(SubSeq(s, 1, Len(s) - 1))
    ELSE s

\* strings.TrimSpace(s)
RECURSIVE TrimLeftSpace(_)
TrimLeftSpace(s) ==
    IF s # "" /\ IsSpace(CharAt(s, 1))
    THEN TrimLeftSpace(SubSeq(s, 2, Len(s)))
    ELSE s

TrimSpace(s) == TrimLeftSpace(TrimRightSpace(s))

\* the chomping indicator of a literal block scalar: strip when the string
\* does not end in a line break, clip (no indicator) when it ends in one,
\* keep when it ends in more
ChompHint(value) ==
    IF ~HasSuffix(value, "\n") THEN "-"
    ELSE IF HasSuffix(value, "\n\n") \/ value = "\n" THEN "+"
    ELSE ""

\* the lines of a literal block scalar, each on its own line behind pad
RECURSIVE BlockLines(_, _, _)
BlockLines(lines, i, pad) ==
    IF i > Len(lines) THEN ""
    ELSE (IF lines[i] = "" THEN "" ELSE pad \o lines[i]) \o "\n"
             \o BlockLines(lines, i + 1, pad)

\* a string that yaml.v3 writes as a plain scalar
PlainAllowed(value) ==
    /\ value # ""
    /\ CharAt(value, 1) \notin {" ", "-"}
    /\ CharAt(value, Len(value)) # " "

\* a string as yaml.v3 writes it after "key: " or "- ", up to and including
\* the line break that ends it; pad is the indentation of a block scalar
EmitScalar(value, pad) ==
    IF Contains(value, "\n")
    THEN "|" \o ChompHint(value) \o "\n"
             \o BlockLines(YamlLines(IF HasSuffix(value, "\n")
                                     THEN SubSeq(value, 1, Len(value) - 1)
                                     ELSE value), 1, pad)
    ELSE IF value = "" THEN "\"\"\n"
    ELSE IF PlainAllowed(value) THEN value \o "\n"
    ELSE "'" \o value \o "'\n"

\* the indentation yaml.v3 gives the entries of a nested collection
YamlIndent == "    "

\* a list of strings as a block sequence
RECURSIVE EmitSequence(_, _)
EmitSequence(items, i) ==
    IF i > Len(items) THEN ""
    ELSE YamlIndent \o "- " \o EmitScalar(items[i], YamlIndent \o "  ")
             \o EmitSequence(items, i + 1)

\* a map of strings as a block mapping, keys sorted
RECURSIVE EmitMapping(_, _, _)
EmitMapping(m, keys, i) ==
    IF i > Len(keys) THEN ""
    ELSE YamlIndent \o keys[i] \o ": "
             \o EmitScalar(m[keys[i]], YamlIndent \o YamlIndent)
             \o EmitMapping(m, keys, i + 1)

\* yaml.Marshal of a Goal: the tagged fields in the order of the struct,
\* those marked omitempty left out when empty
Marshal(g) ==
    "title: " \o EmitScalar(g.title, YamlIndent)
    \o "status: " \o EmitScalar(g.status, YamlIndent)
    \o (IF g.horizon = "" THEN ""
        ELSE "horizon: " \o EmitScalar(g.horizon, YamlIndent))
    \o "created: " \o g.created \o "\n"
    \o "updated: " \o g.updated \o "\n"
    \o (IF g.tags = <<>> THEN ""
        ELSE "tags:\n" \o EmitSequence(g.tags, 1))
    \o (IF DOMAIN g.links = {} THEN ""
        ELSE "links:\n" \o EmitMapping(g.links, SortNames(DOMAIN g.links), 1))
    \o (IF g.children_order = <<>> THEN ""
        ELSE "children_order:\n" \o EmitSequence(g.children_order, 1))

SerializeFrontmatter(g) ==
    frontmatterDelimiter \o "\n"
    \o TrimRightNewlines(Marshal(g))
    \o "\n"
    \o frontmatterDelimiter \o "\n"
    \o (IF g.body = "" THEN ""
        ELSE "\n" \o g.body \o (IF HasSuffix(g.body, "\n") THEN "" ELSE "\n"))

\* the number of spaces a line starts with
RECURSIVE LeadingSpaces(_)
LeadingSpaces(line) ==
    IF line # "" /\ CharAt(line, 1) = " "
    THEN 1 + LeadingSpaces(SubSeq(line, 2, Len(line)))
    ELSE 0

\* the first line at or after i that is not empty and is indented by at
\* most width spaces, or one past the last line
RECURSIVE NextEntry(_, _, _)
NextEntry(lines, i, width) ==
    IF i > Len(lines) THEN i
    ELSE IF lines[i] # "" /\ LeadingSpaces(lines[i]) <= width THEN i
    ELSE NextEntry(lines, i + 1, width)

\* the last line of from..to that is not empty, or from - 1
RECURSIVE LastContent(_, _, _)
LastContent(lines, from, to) ==
    IF to < from THEN from - 1
    ELSE IF lines[to] # "" THEN to
    ELSE LastContent(lines, from, to - 1)

\* lines[from..to] without their first width characters, joined by breaks
RECURSIVE JoinBlock(_, _, _, _)
JoinBlock(lines, from, to, width) ==
    IF from > to THEN ""
    ELSE SubSeq(lines[from], width + 1, Len(lines[from]))
             \o (IF from < to THEN "\n" ELSE "")
             \o JoinBlock(lines, from + 1, to, width)

\* n line breaks
RECURSIVE Breaks(_)
Breaks(n) == IF n <= 0 THEN "" ELSE "\n" \o Breaks(n - 1)

\* the string of the literal block scalar on lines[from..to], whose header
\* carried the chomping indicator chomp: the text of the lines up to the
\* last one that is not empty, and of the line breaks that follow it in
\* the document none (strip), the first (clip) or all (keep)
BlockScalar(lines, from, to, chomp) ==
    LET end == LastContent(lines, from, to)
        width == IF end < from THEN 0 ELSE LeadingSpaces(lines[from])
        breaks == IF to < Len(lines) THEN to - end + 1 ELSE to - end
    IN JoinBlock(lines, from, end, width)
           \o (IF chomp = "-" THEN ""
               ELSE IF chomp = "+" THEN Breaks(breaks)
               ELSE Breaks(IF breaks > 0 THEN 1 ELSE 0))

\* a scalar written on one line: in double quotes, in single quotes or plain
InlineScalar(text) ==
    IF Len(text) >= 2 /\ CharAt(text, 1) \in {"'", "\""}
    THEN SubSeq(text, 2, Len(text) - 1)
    ELSE text

\* the value that starts with text on lines[i] and ends before lines[next]
ScalarAt(lines, i, next, text) ==
    IF HasPrefix(text, "|")
    THEN BlockScalar(lines, i + 1, next - 1, SubSeq(text, 2, Len(text)))
    ELSE InlineScalar(text)

\* the entries of the nested collection on lines[i..to]: <<"-", item>> for
\* an entry of a sequence, <<key, value>> for an entry of a mapping
RECURSIVE NestedEntries(_, _, _)
NestedEntries(lines, i, to) ==
    IF i > to THEN <<>>
    ELSE IF lines[i] = "" THEN NestedEntries(lines, i + 1, to)
    ELSE LET width == LeadingSpaces(lines[i])
             entry == SubSeq(lines[i], width + 1, Len(lines[i]))
             next == NextEntry(lines, i + 1, width)
             stop == IF next > to THEN to + 1 ELSE next
             colon == Index(entry, ":")
         IN (IF HasPrefix(entry, "- ")
             THEN <<<<"-", ScalarAt(lines, i, stop,
                                  TrimSpace(SubSeq(entry, 3, Len(entry))))>>>>
             ELSE <<<<SubSeq(entry, 1, colon - 1),
                      ScalarAt(lines, i, stop,
                               TrimSpace(SubSeq(entry, colon + 1, Len(entry))))>>>>)
                \o NestedEntries(lines, stop, to)

SequenceOf(entries) == [k \in 1..Len(entries) |-> entries[k][2]]

MappingOf(entries) ==
    [key \in {entries[k][1] : k \in 1..Len(entries)} |->
        entries[CHOOSE k \in 1..Len(entries) : entries[k][1] = key][2]]

\* the zero Goal
ZeroGoal ==
    [title |-> "", status |-> "", horizon |-> "", created |-> "",
     updated |-> "", tags |-> <<>>, links |-> <<>>, children_order |-> <<>>,
     body |-> ""]

\* yaml.Unmarshal into a Goal: the top-level keys of lines[i..], each with
\* the scalar on its line, the block scalar below it or the collection
\* below it; keys the struct does not tag are skipped
RECURSIVE Unmarshal(_, _, _)
Unmarshal(lines, i, goal) ==
    IF i > Len(lines) THEN goal
    ELSE IF lines[i] = "" THEN Unmarshal(lines, i + 1, goal)
    ELSE LET colon == Index(lines[i], ":")
             key == SubSeq(lines[i], 1, colon - 1)
             text == TrimSpace(SubSeq(lines[i], colon + 1, Len(lines[i])))
             next == NextEntry(lines, i + 1, 0)
             scalar == ScalarAt(lines, i, next, text)
             entries == NestedEntries(lines, i + 1, next - 1)
         IN Unmarshal(lines, next,
                IF key \in {"title", "status", "horizon", "created", "updated"}
                THEN [goal EXCEPT ![key] = scalar]
                ELSE IF key \in {"tags", "children_order"}
                THEN [goal EXCEPT ![key] = SequenceOf(entries)]
                ELSE IF key = "links"
                THEN [goal EXCEPT !.links = MappingOf(entries)]
                ELSE goal)

\* strings.Index(s, sub) for a text of many lines: the least position at
\* which sub occurs in s, or 0
FirstIndex(s, sub) ==
    LET hits == {i \in 1..(Len(s) - Len(sub) + 1) :
                    SubSeq(s, i, i + Len(sub) - 1) = sub}
    IN IF hits = {} THEN 0
       ELSE CHOOSE i \in hits : \A j \in hits : i <= j

\* a parser that reads an unclosed block as the body
ParseFrontmatterLenient(text) ==
    LET content == TrimSpace(text)
    IN [err |-> "", goal |-> [ZeroGoal EXCEPT !.body = content]]

ParseFrontmatter(text) ==
    LET content == TrimSpace(text)
        rest == SubSeq(content, Len(frontmatterDelimiter) + 1, Len(content))
        idx == FirstIndex(rest, "\n" \o frontmatterDelimiter)
        yamlContent == SubSeq(rest, 1, idx - 1)
        body == TrimLeftNewlines(
                    SubSeq(rest, idx + Len("\n" \o frontmatterDelimiter),
                           Len(rest)))
    IN IF ~HasPrefix(content, frontmatterDelimiter)
       THEN [err |-> "", goal |-> [ZeroGoal EXCEPT !.body = content]]
       ELSE IF idx = 0
       THEN [err |-> "unclosed frontmatter delimiter", goal |-> ZeroGoal]
       ELSE [err |-> "",
             goal |-> [Unmarshal(YamlLines(yamlContent), 1, ZeroGoal)
                          EXCEPT !.body = body]]

\* the goals that are serialized: strings that need quotes, strings of two
\* lines and strings that end in a line break among them
WrittenTitles == {"a b", "---", " a", "a\nb"}

WrittenTags == {<<>>, <<"a">>, <<"a", "a\nb">>, <<"a\n">>, <<"a\n", "b">>}

WrittenLinks ==
    {<<>>, [k \in {"a"} |-> "x"],
     [k \in {"a", "b"} |-> IF k = "a" THEN "x\n" ELSE "x"],
     [k \in {"a", "b"} |-> IF k = "a" THEN "x" ELSE "x\n"]}

WrittenOrders == {<<>>, <<"b", "a">>}

WrittenBodies == {"", "x", "\n\nx \n", " x\n\n---\ny", "--- x", " \n"}

\* time.Time as yaml.v3 writes it
Timestamp == "2026-02-08T10:00:00Z"

NotParsed == [err |-> "", goal |-> ZeroGoal]

InitFrontmatter ==
    /\ \E title \in WrittenTitles,
          status \in {StatusIncomplete, StatusInProgress, StatusComplete},
          horizon \in {"", HorizonToday}, tags \in WrittenTags,
          links \in WrittenLinks, order \in WrittenOrders,
          body \in WrittenBodies :
          returned = [goal |-> [title |-> title, status |-> status,
                                horizon |-> horizon, created |-> Timestamp,
                                updated |-> Timestamp, tags |-> tags,
                                links |-> links, children_order |-> order,
                                body |-> body],
                      content |-> "",
                      parsed |-> NotParsed]
    /\ dirs = {}
    /\ files = <<>>
    /\ last = NoCall
    /\ tree = <<>>
    /\ calls = 0
    /\ today = FirstDay
    /\ goalsDir = TRUE
    /\ watcher = NotWatching
    /\ observed = <<>>
    /\ view = NoView

frontmatterFrame ==
    <<dirs, files, tree, today, goalsDir, watcher, observed, view>>

SerializeFrontmatterCall ==
    /\ last.op = "none"
    /\ returned' = [returned EXCEPT
                       !.content = SerializeFrontmatter(returned.goal)]
    /\ last' = Call("SerializeFrontmatter", "", "", "")
    /\ calls' = calls + 1
    /\ UNCHANGED frontmatterFrame

ParseFrontmatterCall ==
    /\ last.op = "SerializeFrontmatter"
    /\ returned' = [returned EXCEPT
                       !.parsed = ParseFrontmatter(returned.content)]
    /\ last' = Call("ParseFrontmatter", "", "", "")
    /\ calls' = calls + 1
    /\ UNCHANGED frontmatterFrame

NextFrontmatter ==
    \/ SerializeFrontmatterCall
    \/ ParseFrontmatterCall

SpecFrontmatter == InitFrontmatter /\ [][NextFrontmatter]_vars

(***************************************************************************)
(* ParseFrontmatter on hand-written text: white space in front, an opening *)
(* line that is the delimiter, longer, shorter or missing, a block of      *)
(* YAML, a closing line of the same kinds, and a body.                     *)
(***************************************************************************)
WrittenLeads == {"", " ", "\n"}

WrittenOpenings == {"---", "----", "--- x", "--", ""}

WrittenBlocks == {"", "\ntitle: a", "\ntitle: '---'\nstatus: complete"}

WrittenClosings == {"", "\n---", "\n----", "\n--", "\n ---"}

WrittenTails == {"", "\nb", "\n\nb \n"}

InitParse ==
    /\ \E lead \in WrittenLeads, opening \in WrittenOpenings,
          block \in WrittenBlocks, closing \in WrittenClosings,
          tail \in WrittenTails :
          /\ closing = "\n ---" => block # ""
          /\ opening \in {"----", "--- x"} => closing \notin {"\n---", "\n----"}
          /\ returned = [goal |-> ZeroGoal,
                         content |-> lead \o opening \o block \o closing \o tail,
                         parsed |-> NotParsed]
    /\ dirs = {}
    /\ files = <<>>
    /\ last = NoCall
    /\ tree = <<>>
    /\ calls = 0
    /\ today = FirstDay
    /\ goalsDir = TRUE
    /\ watcher = NotWatching
    /\ observed = <<>>
    /\ view = NoView

ParseTextCall ==
    /\ last.op = "none"
    /\ returned' = [returned EXCEPT
                       !.parsed = ParseFrontmatter(returned.content)]
    /\ last' = Call("ParseFrontmatter", "", "", "")
    /\ calls' = calls + 1
    /\ UNCHANGED frontmatterFrame

NextParse == ParseTextCall

SpecParse == InitParse /\ [][NextParse]_vars

(***************************************************************************)
(* queue.md: ParseQueue and SerializeQueue on text, LoadQueue and          *)
(* SaveQueue on the file beside goals/.                                    *)
(***************************************************************************)
\* queue.md, as a path from goals/
QueuePath == "../queue.md"

IsDigit(c) == c \in {"0", "1", "2", "3", "4", "5", "6", "7", "8", "9"}

\* the number of digits a line starts with
RECURSIVE LeadingDigits(_)
LeadingDigits(line) ==
    IF line # "" /\ IsDigit(CharAt(line, 1))
    THEN 1 + LeadingDigits(SubSeq(line, 2, Len(line)))
    ELSE 0

\* the items a trimmed line that is not empty adds to the queue: the loop
\* over its characters stops at the first that is not a digit; at a period
\* the rest of the line, trimmed, is the item unless it is empty; at any
\* other character, and at the end of a line of digits, the line is
ItemsOfLine(line) ==
    LET n == LeadingDigits(line)
        item == TrimSpace(SubSeq(line, n + 2, Len(line)))
    IN IF n < Len(line) /\ CharAt(line, n + 1) = "."
       THEN (IF item # "" THEN <<item>> ELSE <<>>)
       ELSE <<line>>

\* the loop of ParseQueue over the lines of the body
RECURSIVE ItemsOfLines(_, _)
ItemsOfLines(lines, i) ==
    IF i > Len(lines) THEN <<>>
    ELSE (IF TrimSpace(lines[i]) = "" THEN <<>>
          ELSE ItemsOfLine(TrimSpace(lines[i])))
             \o ItemsOfLines(lines, i + 1)

\* yaml.Unmarshal into a Queue: the scalar of the key updated
RECURSIVE UnmarshalQueue(_, _, _)
UnmarshalQueue(lines, i, updated) ==
    IF i > Len(lines) THEN updated
    ELSE LET colon == Index(lines[i], ":")
         IN UnmarshalQueue(lines, i + 1,
                IF colon > 0 /\ SubSeq(lines[i], 1, colon - 1) = "updated"
                THEN InlineScalar(TrimSpace(SubSeq(lines[i], colon + 1,
                                                   Len(lines[i]))))
                ELSE updated)

ParseQueue(text) ==
    LET content == TrimSpace(text)
        fenced == HasPrefix(content, frontmatterDelimiter)
        rest == SubSeq(content, Len(frontmatterDelimiter) + 1, Len(content))
        idx == FirstIndex(rest, "\n" \o frontmatterDelimiter)
        yamlContent == SubSeq(rest, 1, idx - 1)
        body == TrimSpace(SubSeq(rest, idx + Len("\n" \o frontmatterDelimiter),
                                 Len(rest)))
    IN IF fenced /\ idx = 0
       THEN [err |-> "unclosed frontmatter delimiter in queue.md",
             updated |-> "", items |-> <<>>]
       ELSE [err |-> "",
             updated |-> IF fenced
                         THEN UnmarshalQueue(YamlLines(yamlContent), 1, "")
                         ELSE "",
             items |-> ItemsOfLines(YamlLines(IF fenced THEN body ELSE content),
                                    1)]

\* fmt.Sprintf("%d", n)
RECURSIVE Itoa(_)
Itoa(n) ==
    (IF n >= 10 THEN Itoa(n \div 10) ELSE "")
        \o CharAt("0123456789", (n % 10) + 1)

\* the numbered lines SerializeQueue writes for items[i..]
RECURSIVE NumberedLines(_, _)
NumberedLines(items, i) ==
    IF i > Len(items) THEN ""
    ELSE Itoa(i) \o ". " \o items[i] \o "\n" \o NumberedLines(items, i + 1)

\* a rendering that writes the items without their numbers
SerializeQueuePlain(q) ==
    LET joined[i \in 0..Len(q.items)] ==
            IF i = 0 THEN "" ELSE joined[i - 1] \o q.items[i] \o "\n"
    IN frontmatterDelimiter \o "\n"
       \o "updated: \"" \o q.updated \o "\"\n"
       \o frontmatterDelimiter \o "\n\n"
       \o joined[Len(q.items)]

\* the time is formatted and then marshalled as a string, which yaml.v3
\* puts in quotes because it reads as a timestamp
SerializeQueue(q) ==
    frontmatterDelimiter \o "\n"
    \o TrimRightNewlines("updated: \"" \o q.updated \o "\"\n")
    \o "\n"
    \o frontmatterDelimiter \o "\n\n"
    \o NumberedLines(q.items, 1)

\* time.Now() on the day, formatted
Stamp(day) == "2026-02-0" \o day \o "T10:00:00Z"

LoadQueue(f, day) ==
    IF QueuePath \notin DOMAIN f
    THEN [err |-> "", updated |-> Stamp(day), items |-> <<>>]
    ELSE ParseQueue(f[QueuePath].text)

SaveQueue(f, q, day) ==
    [p \in DOMAIN f \cup {QueuePath} |->
        IF p = QueuePath
        THEN [kind |-> "queue",
              text |-> SerializeQueue([q EXCEPT !.updated = Stamp(day)])]
        ELSE f[p]]

\* the lines of a hand-written queue.md
WrittenLines == {"1. a", "a b", "42", "1.", ".a", "3.14", "", " 2.  a ", "10. b"}

\* the items that are saved: not empty, trimmed, of one line
SavedItems == {"a", "a b", "1.", "42", "2. a", "---"}

\* the lists of at most n members of S
ListsOf(S, n) == UNION {[1..k -> S] : k \in 0..n}

JoinLines(lines) ==
    LET joined[i \in 0..Len(lines)] ==
            IF i = 0 THEN "" ELSE joined[i - 1] \o lines[i] \o "\n"
    IN joined[Len(lines)]

\* no queue.md, or one written by hand with or without the frontmatter
InitQueue ==
    /\ \/ /\ files = <<>>
          /\ observed = [saved |-> FALSE, items |-> <<>>]
       \/ \E lines \in ListsOf(WrittenLines, MaxQueue),
             header \in {"", "---\nupdated: 2026-02-08T14:30:00Z\n---\n\n"} :
             /\ files = [p \in {QueuePath} |->
                            [kind |-> "queue",
                             text |-> header \o JoinLines(lines)]]
             /\ observed = [saved |-> FALSE, items |-> lines]
    /\ dirs = {}
    /\ last = NoCall
    /\ tree = <<>>
    /\ calls = 0
    /\ today = FirstDay
    /\ goalsDir = TRUE
    /\ watcher = NotWatching
    /\ view = NoView
    /\ returned = <<>>

queueFrame == <<dirs, tree, today, goalsDir, watcher, view>>

LoadQueueCall ==
    /\ calls < MaxCalls
    /\ returned' = LoadQueue(files, today)
    /\ last' = Call("LoadQueue", "", "", returned'.err)
    /\ calls' = calls + 1
    /\ UNCHANGED <<files, observed, queueFrame>>

SaveQueueCall ==
    /\ calls < MaxCalls
    /\ \E items \in ListsOf(SavedItems, MaxQueue) :
          /\ files' = SaveQueue(files, [updated |-> "", items |-> items], today)
          /\ observed' = [saved |-> TRUE, items |-> items]
    /\ returned' = [err |-> ""]
    /\ last' = Call("SaveQueue", "", "", "")
    /\ calls' = calls + 1
    /\ UNCHANGED queueFrame

NextQueue ==
    \/ LoadQueueCall
    \/ SaveQueueCall

SpecQueue == InitQueue /\ [][NextQueue]_vars

(***************************************************************************)
(* Deleting on a written disk: one DeleteGoal call, then LoadGoalTree, in  *)
(* a store whose hint (of goals/ or of the goal with children) and whose   *)
(* queue.md name the goals.                                                *)
(***************************************************************************)
DeleteHints == UNION {[1..n -> Slugs] : n \in 0..2}

QueuedLists == {<<>>, <<"a", "b">>, <<"ab">>}

InitDelete ==
    /\ \E top \in {t \in SUBSET Slugs : NestedParent \in t},
          kids \in SUBSET {"ab", "b"}, edited \in {"", NestedParent},
          hint \in DeleteHints, queued \in QueuedLists :
          /\ dirs = top \cup {Join(NestedParent, k) : k \in kids}
          /\ files = [p \in dirs \cup {"", QueuePath} |->
                         IF p = QueuePath
                         THEN [kind |-> "queue",
                               text |-> SerializeQueue(
                                            [updated |-> Stamp(FirstDay),
                                             items |-> queued])]
                         ELSE IF p = ""
                         THEN GoalFile("", "", "",
                                       IF edited = "" THEN hint ELSE <<>>, "")
                         ELSE IF p = edited
                         THEN [NewGoalFile(p) EXCEPT !.order = hint]
                         ELSE NewGoalFile(p)]
    /\ last = NoCall
    /\ tree = <<>>
    /\ calls = 0
    /\ today = FirstDay
    /\ goalsDir = TRUE
    /\ watcher = NotWatching
    /\ observed = ""
    /\ view = NoView
    /\ returned = <<>>

\* DeleteGoal on the written disk; observed keeps the path that was named
DeleteStoredCall ==
    /\ last.op = "none"
    /\ \E goalPath \in CallPaths(dirs) :
          /\ \A r \in {DeleteGoal(dirs, files, goalPath)} :
                /\ dirs' = r.dirs
                /\ files' = r.files
                /\ last' = Call("DeleteGoal", goalPath, "", r.err)
          /\ observed' = goalPath
    /\ calls' = calls + 1
    /\ UNCHANGED <<tree, today, goalsDir, watcher, view, returned>>

LoadAfterDeleteCall ==
    /\ last.op = "DeleteGoal"
    /\ tree' = LoadGoalTree(dirs, files)
    /\ last' = Call("LoadGoalTree", "", "", "")
    /\ calls' = calls + 1
    /\ UNCHANGED <<dirs, files, others>>

NextDelete ==
    \/ DeleteStoredCall
    \/ LoadAfterDeleteCall

SpecDelete == InitDelete /\ [][NextDelete]_vars

(***************************************************************************)
(* Creating on a written disk: one CreateGoal call, with slug proposals    *)
(* that need lowercasing and hyphenation, under the root, an existing goal *)
(* or a parent that does not exist yet.                                    *)
(***************************************************************************)
\* slug proposals as a user types them
ProposedNames == ProposedSlugs \cup {"A b"}

InitCreate ==
    /\ \E top \in SUBSET Slugs, kids \in SUBSET Slugs :
          WrittenDisk(top, kids, NestedParent, "", <<>>)
    /\ last = NoCall
    /\ tree = <<>>
    /\ calls = 0
    /\ OthersAtStart

CreateStoredCall ==
    /\ last.op = "none"
    /\ \E parentPath \in CallPaths(dirs) \cup {""}, proposed \in ProposedNames :
          LET r == CreateGoal(dirs, files, parentPath, proposed)
          IN /\ dirs' = r.dirs
             /\ files' = r.files
             /\ last' = Call("CreateGoal", parentPath, proposed, r.err)
             /\ calls' = calls + 1
             /\ UNCHANGED <<tree, others>>

NextCreate == CreateStoredCall

SpecCreate == InitCreate /\ [][NextCreate]_vars

(***************************************************************************)
(* Properties                                                              *)
(***************************************************************************)
Range(seq) == {seq[i] : i \in 1..Len(seq)}

\* the slugs of a list of loaded goals
SlugsOf(goals) == [i \in 1..Len(goals) |-> goals[i].slug]

\* the children_order persisted in the goal.md of directory p
HintAt(f, p) ==
    IF FileAt(f, p).kind = "goal" THEN FileAt(f, p).order ELSE <<>>

\* result is the hint entries that exist, in hint order, followed by the
\* entries the hint does not mention, in increasing name order
IsOrderMerge(result, hint, entries) ==
    LET kept == SelectSeq(hint, LAMBDA n : n \in entries)
        k == Len(kept)
    IN /\ Len(result) >= k
       /\ SubSeq(result, 1, k) = kept
       /\ {result[i] : i \in (k + 1)..Len(result)} = entries \ Range(hint)
       /\ \A i \in (k + 1)..Len(result) : \A j \in (i + 1)..Len(result) :
              StrLess(result[i], result[j])

RECURSIVE MergedBelow(_)
MergedBelow(goal) ==
    /\ IsOrderMerge(SlugsOf(goal.children), HintAt(files, goal.path),
                    ChildNames(dirs, goal.path))
    /\ \A i \in 1..Len(goal.children) : MergedBelow(goal.children[i])

\* C1: at the root and at every loaded goal, the loaded children are the
\* hint entries that exist as directories, in hint order, followed by the
\* directories the hint does not mention, in alphabetical order
OrderMergeAtEveryLevel ==
    last.op = "LoadGoalTree" =>
        /\ IsOrderMerge(SlugsOf(tree), HintAt(files, ""), ChildNames(dirs, ""))
        /\ \A i \in 1..Len(tree) : MergedBelow(tree[i])

\* a goal with three child directories and the hint [b, x] loads as b, a, ab
OrderMergeWitness ==
    /\ last.op = "LoadGoalTree"
    /\ ChildNames(dirs, "a") = {"a", "ab", "b"}
    /\ HintAt(files, "a") = <<"b", "x">>
    /\ \E i \in 1..Len(tree) :
          /\ tree[i].path = "a"
          /\ SlugsOf(tree[i].children) = <<"b", "a", "ab">>

\* the children of a loaded goal are its child directories, each once
RECURSIVE DistinctBelow(_)
DistinctBelow(goal) ==
    LET slugs == SlugsOf(goal.children)
    IN /\ Range(slugs) = ChildNames(dirs, goal.path)
       /\ \A i, j \in 1..Len(slugs) : i # j => slugs[i] # slugs[j]
       /\ \A i \in 1..Len(goal.children) : DistinctBelow(goal.children[i])

\* C2: whatever the hint (missing, stale, partial, unknown or repeated
\* names), every loaded child list holds each existing child directory
\* exactly once and nothing else
SiblingsDistinctForAnyHint ==
    last.op = "LoadGoalTree" =>
        /\ Range(SlugsOf(tree)) = ChildNames(dirs, "")
        /\ \A i, j \in 1..Len(tree) : i # j => tree[i].slug # tree[j].slug
        /\ \A i \in 1..Len(tree) : DistinctBelow(tree[i])

\* a path as its list of segments
RECURSIVE SegmentsFrom(_, _, _, _)
SegmentsFrom(p, i, current, acc) ==
    IF i > Len(p) THEN Append(acc, current)
    ELSE IF CharAt(p, i) = "/" THEN SegmentsFrom(p, i + 1, "", Append(acc, current))
    ELSE SegmentsFrom(p, i + 1, current \o CharAt(p, i), acc)

Segments(p) == IF p = "" THEN <<>> ELSE SegmentsFrom(p, 1, "", <<>>)

\* q is p itself or lies below p, segment by segment
AtOrBelow(q, p) ==
    LET above == Segments(p)
        below == Segments(q)
    IN /\ Len(above) <= Len(below)
       /\ SubSeq(below, 1, Len(above)) = above

MoveSucceeded == last.op = "MoveGoal" /\ last.err = ""

MoveFailed == last.op = "MoveGoal" /\ last.err # ""

\* C3: a MoveGoal that returns an error leaves the directory tree and every
\* goal.md (so every children-order hint, the root marker included) as they
\* were before the call
FailedMoveChangesNothing ==
    [][MoveFailed' => (dirs' = dirs /\ files' = files)]_vars

\* a move was rejected in a store whose root marker already holds a hint
FailedMoveWitness ==
    /\ MoveFailed
    /\ last.err = "moving goal directory"
    /\ Len(HintAt(files, "")) > 0

\* C4: MoveGoal is rejected whenever the new parent is the goal itself or
\* one of its descendants (by whole segments), and never on these grounds
\* for a new parent that merely begins with the same characters
MoveIntoSelfRejected ==
    \A goalPath \in CallPaths(dirs), newParentPath \in CallPaths(dirs) \cup {""} :
        LET err == MoveGoalErr(dirs, goalPath, newParentPath)
        IN IF AtOrBelow(newParentPath, goalPath)
           THEN err # ""
           ELSE err # "into itself or a descendant"

\* a move was rejected as a move into the goal's own subtree, in a store where
\* "a" has a descendant and a sibling "ab" that only shares its first letter
MoveIntoSelfWitness ==
    /\ MoveFailed
    /\ last.err = "into itself or a descendant"
    /\ {"a", "ab"} \subseteq dirs
    /\ \E q \in dirs : q # "a" /\ AtOrBelow(q, "a")

\* C5: MoveGoal fails when a directory exists at newParent/slug (the goal's
\* current parent included) and when a non-empty newParent does not exist;
\* the root is always accepted as the new parent
MoveDestinationChecked ==
    \A goalPath \in CallPaths(dirs), newParentPath \in CallPaths(dirs) \cup {""} :
        LET err == MoveGoalErr(dirs, goalPath, newParentPath)
            target == IF newParentPath = "" THEN Base(goalPath)
                      ELSE newParentPath \o "/" \o Base(goalPath)
        IN /\ target \in dirs => err # ""
           /\ ParentPath(goalPath) = newParentPath /\ goalPath \in dirs
                  => err # ""
           /\ (newParentPath # "" /\ newParentPath \notin dirs) => err # ""
           /\ (newParentPath = "" /\ goalPath \in dirs /\ target \notin dirs)
                  => err = ""

\* a move was rejected because its destination parent does not exist
MoveDestinationWitness ==
    /\ MoveFailed
    /\ last.err = "destination parent does not exist"
    /\ dirs # {}

\* the goals of a loaded tree, by path
RECURSIVE PathsBelow(_)
PathsBelow(goal) ==
    {goal.path} \cup UNION {PathsBelow(goal.children[i]) :
                               i \in 1..Len(goal.children)}

PathsOf(goals) == UNION {PathsBelow(goals[i]) : i \in 1..Len(goals)}

RECURSIVE CountBelow(_, _)
CountBelow(goals, i) ==
    IF i > Len(goals) THEN 0
    ELSE 1 + CountBelow(goals[i].children, 1) + CountBelow(goals, i + 1)

\* number of goals in a loaded tree
CountGoals(goals) == CountBelow(goals, 1)

\* the slugs of a loaded subtree, nested as the children are
RECURSIVE Shape(_)
Shape(goal) ==
    [slug |-> goal.slug,
     children |-> [i \in 1..Len(goal.children) |-> Shape(goal.children[i])]]

\* the loaded goal at path p, which must be a path of the tree
RECURSIVE FindIn(_, _)
FindIn(goals, p) ==
    LET i == CHOOSE k \in 1..Len(goals) : AtOrBelow(p, goals[k].path)
    IN IF goals[i].path = p THEN goals[i] ELSE FindIn(goals[i].children, p)

\* the loaded children (slugs) of the directory p; p = "" is the root
LoadedChildren(goals, p) ==
    IF p = "" THEN SlugsOf(goals) ELSE SlugsOf(FindIn(goals, p).children)

\* C6: after a successful MoveGoal the goal and its whole subtree are loaded
\* under newParent/slug with the same structure, nothing is left at the old
\* path, the old parent no longer has it as a child and the number of goals
\* is unchanged
MoveCarriesSubtree ==
    [][MoveSucceeded' =>
        \A before \in {LoadGoalTree(dirs, files)},
           after \in {LoadGoalTree(dirs', files')} :
            LET src == last'.path
                slug == Base(src)
                dst == IF last'.arg = "" THEN slug
                       ELSE last'.arg \o "/" \o slug
            IN /\ src \in PathsOf(before)
               /\ dst \in PathsOf(after)
               /\ Shape(FindIn(after, dst)) = Shape(FindIn(before, src))
               /\ \A q \in PathsOf(after) : ~AtOrBelow(q, src)
               /\ ParentPath(src) \in PathsOf(after) \cup {""}
               /\ slug \notin Range(LoadedChildren(after, ParentPath(src)))
               /\ CountGoals(after) = CountGoals(before)
               /\ Cardinality(PathsOf(after)) = CountGoals(after)]_vars

\* a goal with a child of its own has been moved under another goal
MoveCarriesSubtreeWitness ==
    /\ MoveSucceeded
    /\ last.arg # ""
    /\ \E q \in dirs : ParentPath(q) = last.arg \o "/" \o Base(last.path)

\* C7: after a successful MoveGoal the moved slug is in the new parent's
\* persisted children-order hint and the moved goal is loaded as the last
\* child of the new parent; the old parent's hint does not name the slug
MovedGoalAppendedLast ==
    MoveSucceeded =>
        LET slug == Base(last.path)
            kids == LoadedChildren(LoadGoalTree(dirs, files), last.arg)
        IN /\ Len(kids) > 0
           /\ kids[Len(kids)] = slug
           /\ slug \in Range(HintAt(files, last.arg))
           /\ slug \notin Range(HintAt(files, ParentPath(last.path)))

NoRepeat(seq) == \A i, j \in 1..Len(seq) : i # j => seq[i] # seq[j]

ReorderSucceeded == last.op = "ReorderGoal" /\ last.err = ""

DeltaOf(call) == IF call.arg = "+1" THEN 1 ELSE -1

\* position of a slug in a list without repeats, 0 when absent
PositionOf(seq, slug) ==
    IF slug \in Range(seq) THEN CHOOSE i \in 1..Len(seq) : seq[i] = slug ELSE 0

ReorderPersistsMergedOrder ==
    [][ReorderSucceeded' =>
        \A before \in {LoadedChildren(LoadGoalTree(dirs, files),
                                      ParentPath(last'.path))},
           after \in {LoadedChildren(LoadGoalTree(dirs', files'),
                                     ParentPath(last'.path))},
           hint \in {HintAt(files', ParentPath(last'.path))} :
            LET idx == PositionOf(before, Base(last'.path))
                newIdx == idx + DeltaOf(last')
            IN (newIdx >= 1 /\ newIdx <= Len(before)) =>
                  /\ hint = after
                  /\ Range(hint) = ChildNames(dirs', ParentPath(last'.path))
                  /\ NoRepeat(hint)]_vars

CreateRejected == last.op = "CreateGoal" /\ last.err # ""

\* C11: CreateGoal at a path whose directory exists returns an error and
\* leaves every directory and every goal.md as it was, so the existing goal
\* keeps its contents, its children and its place
CreateOnExistingRejected ==
    \A parentPath \in CallPaths(dirs) \cup {""}, proposed \in ProposedSlugs :
        LET slug == NormalizeSlug(proposed)
            target == IF parentPath = "" THEN slug
                      ELSE parentPath \o "/" \o slug
            r == CreateGoal(dirs, files, parentPath, proposed)
        IN target \in dirs =>
              /\ r.err # ""
              /\ r.dirs = dirs
              /\ r.files = files

\* a CreateGoal was rejected in a store where a goal has a child and a
\* children-order hint has been written
CreateRejectedWitness ==
    /\ CreateRejected
    /\ last.err = "already exists"
    /\ \E q \in dirs : ParentPath(q) # ""
    /\ \E q \in DOMAIN files : Len(files[q].order) > 0

DeleteSucceeded == last.op = "DeleteGoal" /\ last.err = ""

\* C13: after a successful DeleteGoal, LoadGoal fails for the path and for
\* every path that was below it and none of them is in the loaded tree;
\* DeleteGoal of a path without a directory returns an error and leaves the
\* directories and files as they were
DeleteRemovesSubtree ==
    [][/\ \A goalPath \in CallPaths(dirs) :
             goalPath \notin dirs =>
                \A r \in {DeleteGoal(dirs, files, goalPath)} :
                    r.err # "" /\ r.dirs = dirs /\ r.files = files
       /\ DeleteSucceeded' =>
             \A after \in {PathsOf(LoadGoalTree(dirs', files'))} :
                /\ last'.path \in dirs
                /\ \A q \in dirs :
                      AtOrBelow(q, last'.path) =>
                         /\ LoadGoal(dirs', files', q).err
                         /\ q \notin after]_vars

\* a top-level goal was deleted: nothing is left at or below its path, and
\* other goals stay in the store
DeleteRemovesSubtreeWitness ==
    /\ DeleteSucceeded
    /\ ParentPath(last.path) = ""
    /\ dirs # {}
    /\ ~\E q \in dirs : AtOrBelow(q, last.path)

CreateSucceeded == last.op = "CreateGoal" /\ last.err = ""

\* slug is proposed with every uppercase letter lowered and every space
\* turned into a hyphen
SlugAsNormalized(proposed, slug) ==
    /\ Len(slug) = Len(proposed)
    /\ \A i \in 1..Len(proposed) :
          LET c == CharAt(proposed, i)
          IN CharAt(slug, i) = IF c = " " THEN "-"
                               ELSE IF c = "A" THEN "a"
                               ELSE IF c = "B" THEN "b"
                               ELSE c

\* C12: a successful CreateGoal(parentPath, proposed) makes one goal whose
\* slug is the proposal lowercased with hyphens for spaces and whose path
\* is parentPath joined with the slug; LoadGoal returns it with title =
\* slug, status incomplete, horizon future and an empty body, and the
\* loaded tree has it among the children of parentPath
CreateMakesNormalizedGoal ==
    [][CreateSucceeded' =>
        \A after \in {LoadGoalTree(dirs', files')} :
        \E goalPath \in dirs' \ dirs :
            LET slug == Base(goalPath)
                parentPath == last'.path
                loaded == LoadGoal(dirs', files', goalPath)
            IN /\ SlugAsNormalized(last'.arg, slug)
               /\ goalPath = IF parentPath = "" THEN slug
                             ELSE parentPath \o "/" \o slug
               /\ ~loaded.err
               /\ loaded.slug = slug
               /\ loaded.path = goalPath
               /\ loaded.goal.title = slug
               /\ loaded.goal.status = "incomplete"
               /\ loaded.goal.horizon = "future"
               /\ loaded.goal.body = ""
               /\ slug \in Range(LoadedChildren(after, parentPath))]_vars

\* the proposal "A b" was created as a-b under an existing goal
CreateMakesNormalizedGoalWitness ==
    /\ CreateSucceeded
    /\ last.arg = "A b"
    /\ last.path = "a"
    /\ "a/a-b" \in dirs
    /\ FileAt(files, "a/a-b").kind = "goal"

\* C14: LoadGoalTree returns no error whatever the goal.md files hold; every
\* directory is loaded, a directory whose goal.md is absent or unparseable
\* as a placeholder titled by its slug with status incomplete and with all
\* its child directories loaded below it; without goals/ the tree is empty
LoadSurvivesBrokenNodes ==
    last.op = "LoadGoalTree" =>
        /\ last.err = ""
        /\ ~goalsDir => tree = <<>>
        /\ goalsDir =>
              /\ PathsOf(tree) = dirs
              /\ Range(SlugsOf(tree)) = ChildNames(dirs, "")
              /\ \A p \in dirs :
                    LET node == FindIn(tree, p)
                    IN /\ Range(SlugsOf(node.children)) = ChildNames(dirs, p)
                       /\ FileAt(files, p).kind # "goal" =>
                             /\ node.title = Base(p)
                             /\ node.status = "incomplete"
                       /\ FileAt(files, p).kind = "goal" =>
                             node.title = files[p].title

\* a tree was loaded in which a top-level goal with an unparseable goal.md
\* has a child without goal.md and a sibling
LoadSurvivesBrokenNodesWitness ==
    /\ last.op = "LoadGoalTree"
    /\ goalsDir
    /\ \E p \in dirs :
          /\ ParentPath(p) = ""
          /\ FileAt(files, p).kind = "unparseable"
          /\ \E q \in dirs : ParentPath(q) = p /\ FileAt(files, q).kind = "absent"
          /\ \E q \in dirs : q # p /\ ParentPath(q) = ""
          /\ Len(FindIn(tree, p).children) > 0

\* the lines of a text, cut at the newlines
RECURSIVE SplitLines(_, _, _, _)
SplitLines(text, i, current, acc) ==
    IF i > Len(text) THEN Append(acc, current)
    ELSE IF CharAt(text, i) = "\n"
         THEN SplitLines(text, i + 1, "", Append(acc, current))
    ELSE SplitLines(text, i + 1, current \o CharAt(text, i), acc)

RECURSIVE DropEmptyTail(_)
DropEmptyTail(lines) ==
    IF lines # <<>> /\ lines[Len(lines)] = ""
    THEN DropEmptyTail(SubSeq(lines, 1, Len(lines) - 1))
    ELSE lines

\* the lines of a body, without the empty lines at its end
LinesOf(body) == DropEmptyTail(SplitLines(body, 1, "", <<>>))

\* the step is an AddNote call that returned nil
NoteAdded == calls' = calls + 1 /\ last'.op = "AddNote" /\ last'.err = ""

\* C15: when a line of the body is today's heading, AddNote puts the new
\* bullet on the line right after the first such heading, before what was
\* under it; when no line is today's heading, the heading and the bullet
\* are appended after all the lines the body had
NoteGoesUnderTodaysHeading ==
    [][NoteAdded =>
        \A before \in {LinesOf(LoadGoal(dirs, files, last'.path).goal.body)},
           after \in {LinesOf(files'[last'.path].body)} :
            LET heading == "## " \o today
                bullet == "- " \o last'.arg
                at == {i \in 1..Len(before) : before[i] = heading}
            IN IF at # {}
               THEN LET i == CHOOSE k \in at : \A j \in at : k <= j
                    IN after = SubSeq(before, 1, i) \o <<bullet>>
                                  \o SubSeq(before, i + 1, Len(before))
               ELSE \/ after = before \o <<heading, bullet>>
                    \/ after = before \o <<"", heading, bullet>>]_vars

\* C16: a second note added on the same day to a body that ends with the
\* day's only heading and the first note's bullet leaves one heading with
\* the two bullets beneath it, the first note's before the second's
TwoNotesInInsertionOrder ==
    [][(NoteAdded /\ last.op = "AddNote" /\ last.err = ""
            /\ last.path = last'.path /\ today = FirstDay) =>
        \A before \in {LinesOf(LoadGoal(dirs, files, last'.path).goal.body)},
           after \in {LinesOf(files'[last'.path].body)} :
            LET heading == "## " \o today
                first == "- " \o last.arg
                second == "- " \o last'.arg
                n == Len(before)
            IN (/\ n >= 2
                /\ before[n - 1] = heading
                /\ before[n] = first
                /\ Cardinality({i \in 1..n : before[i] = heading}) = 1) =>
                  /\ after = SubSeq(before, 1, n - 2)
                                \o <<heading, first, second>>
                  /\ Cardinality({i \in 1..Len(after) :
                                     after[i] = heading}) = 1]_vars

\* the timers that have not fired yet
Pending(w) == Cardinality(w.timers)

\* C17: a relevant event received while a notification is pending replaces
\* that notification by one due a full quiet period later, so at most one
\* notification is pending, every burst of relevant events (one that began
\* with no notification pending) yields exactly one FileChangedMsg, and a
\* FileChangedMsg is only sent when a full quiet period has passed since the
\* last relevant event
BurstsAreCoalesced ==
    [][/\ Pending(watcher') <= 1
       /\ \A t \in watcher'.timers :
            /\ t.id = watcher'.debounceTimer
            /\ t.deadline = observed'.lastRelevant + Quiet
       /\ watcher'.sent + Pending(watcher') = observed'.bursts
       /\ observed'.relevant > observed.relevant =>
            /\ Pending(watcher') = 1
            /\ watcher'.sent = watcher.sent
       /\ watcher'.sent # watcher.sent =>
            /\ watcher'.sent = watcher.sent + 1
            /\ watcher.now >= observed.lastRelevant + Quiet]_vars

\* a burst of three relevant events has been answered by one FileChangedMsg
BurstsAreCoalescedWitness ==
    /\ observed # <<>>
    /\ observed.relevant = 3
    /\ observed.bursts = 1
    /\ watcher.sent = 1
    /\ watcher.timers = {}

\* C18: once cleanup has returned no further FileChangedMsg is sent
NoMessageAfterCleanup ==
    (observed # <<>> /\ watcher.done) => watcher.sent = observed.sentAtCleanup

\* C19: every non-hidden directory whose creation the running watcher was
\* told of is watched
NewDirectoriesAreWatched ==
    (observed # <<>> /\ ~watcher.done) =>
        \A p \in observed.createsSeen :
            (p \in watcher.dirs /\ ~HiddenName(p)) => p \in watcher.watched

\* the paths at and below a goal, in tree order
RECURSIVE TreeOrder(_, _)
TreeOrder(goals, i) ==
    IF i > Len(goals) THEN <<>>
    ELSE <<goals[i].path>> \o TreeOrder(goals[i].children, 1)
            \o TreeOrder(goals, i + 1)

\* the paths of goals that are shown: those whose ancestors among goals are
\* all expanded
ShownOrder(goals, expandedState) ==
    LET all == TreeOrder(goals, 1)
    IN SelectSeq(all, LAMBDA p :
           \A k \in 1..Len(all) :
               HasPrefix(p, all[k] \o Separator) => all[k] \in expandedState)

\* the top-level goals of one horizon group, in loaded order
InGroup(goals, name) ==
    SelectSeq(goals, LAMBDA g :
        CASE name = "TODAY" -> g.horizon = HorizonToday
          [] name = "TOMORROW" -> g.horizon = HorizonTomorrow
          [] OTHER -> g.horizon \notin {HorizonToday, HorizonTomorrow})

\* the rows of a group: its header and the shown goals, none for no goals
GroupRows(goals, name, expandedState) ==
    IF InGroup(goals, name) = <<>> THEN <<>>
    ELSE <<[row |-> name, header |-> TRUE]>>
            \o [k \in 1..Len(ShownOrder(InGroup(goals, name), expandedState)) |->
                   [row |-> ShownOrder(InGroup(goals, name), expandedState)[k],
                    header |-> FALSE]]

\* what a visible item shows
RowOf(item) ==
    [row |-> IF item.isSectionHeader THEN item.name ELSE item.id,
     header |-> item.isSectionHeader]

\* the active queue item names a top-level goal
ActiveNamesGoal(m) ==
    /\ Len(m.queue) > 0
    /\ m.activeQueue < Len(m.queue)
    /\ \E i \in 1..Len(m.goals) : m.goals[i].slug = m.queue[m.activeQueue + 1]

\* C20: when the active queue item names a top-level goal the visible items
\* are that goal and the shown goals below it, in tree order, with no
\* section header; in every other case (no queue items, active index out of
\* range, no top-level goal of that name) they are the TODAY, TOMORROW and
\* FUTURE groups of all goals, each non-empty group under its header
ProjectionFollowsActiveItem ==
    view # NoView =>
      \A rows \in {[k \in 1..Len(view.visibleItems) |->
                       RowOf(view.visibleItems[k])]} :
        IF ActiveNamesGoal(view)
        THEN \E i \in 1..Len(view.goals) :
               /\ view.goals[i].slug = view.queue[view.activeQueue + 1]
               /\ \A j \in 1..(i - 1) : view.goals[j].slug # view.goals[i].slug
               /\ \A k \in 1..Len(rows) : ~rows[k].header
               /\ [k \in 1..Len(rows) |-> rows[k].row]
                    = ShownOrder(<<view.goals[i]>>, view.expandedState)
        ELSE rows = GroupRows(view.goals, "TODAY", view.expandedState)
                      \o GroupRows(view.goals, "TOMORROW", view.expandedState)
                      \o GroupRows(view.goals, "FUTURE", view.expandedState)

\* the second queue item is active and names a goal with expanded children
\* among several goals: only its subtree is shown
ProjectionOfActiveGoalWitness ==
    /\ view # NoView
    /\ view.activeQueue = 1
    /\ ActiveNamesGoal(view)
    /\ view.queue[1] # view.queue[2]
    /\ Len(view.goals) >= 2
    /\ Len(view.visibleItems) >= 2

\* the section a goal belongs to
SectionOf(g) ==
    IF g.horizon = HorizonToday THEN "TODAY"
    ELSE IF g.horizon = HorizonTomorrow THEN "TOMORROW"
    ELSE "FUTURE"

SectionNames == <<"TODAY", "TOMORROW", "FUTURE">>

\* the name of the last section header at or before row k, "" when none
HeaderAbove(items, k) ==
    LET above == {j \in 1..k : items[j].isSectionHeader}
    IN IF above = {} THEN ""
       ELSE items[CHOOSE j \in above : \A i \in above : i <= j].name

\* the rows that show the goal of path p
RowsOf(items, p) ==
    {k \in 1..Len(items) : ~items[k].isSectionHeader /\ items[k].id = p}

\* the sections that have a top-level goal, in the fixed order
PresentSections(goals) ==
    SelectSeq(SectionNames, LAMBDA name :
        \E i \in 1..Len(goals) : SectionOf(goals[i]) = name)

HeaderID(name) ==
    CASE name = "TODAY" -> "__header_today"
      [] name = "TOMORROW" -> "__header_tomorrow"
      [] OTHER -> "__header_future"

\* the grouped projection is shown
Grouped(m) == m.searchQuery = "" /\ ~ActiveNamesGoal(m)

BlockEnd(items, k) ==
    LET stops == {j \in (k + 1)..Len(items) : items[j].depth <= items[k].depth}
    IN IF stops = {} THEN Len(items)
       ELSE (CHOOSE j \in stops : \A i \in stops : j <= i) - 1

\* C22: in every projection the rows right after a goal's row and one
\* deeper are its children in child order when the goal is in the expanded
\* set and has children, and otherwise no row below the goal's row follows
ChildrenRowsFollowExpandedParent ==
    (view # NoView /\ view.searchQuery = "") =>
      \A items \in {view.visibleItems} :
        \A k \in 1..Len(items) :
          ~items[k].isSectionHeader =>
            \A g \in {FindIn(view.goals, items[k].id)} :
              LET blockEnd == BlockEnd(items, k)
                  below == SelectSeq(SubSeq(items, k + 1, blockEnd),
                                     LAMBDA item : item.depth = items[k].depth + 1)
              IN IF g.path \in view.expandedState /\ Len(g.children) > 0
                 THEN /\ [i \in 1..Len(below) |-> below[i].id]
                           = [i \in 1..Len(g.children) |-> g.children[i].path]
                      /\ items[k + 1].id = g.children[1].path
                      /\ \A j \in (k + 1)..blockEnd :
                             items[j].depth > items[k].depth
                 ELSE blockEnd = k

\* a goal at depth three is shown below its expanded parent and grandparent,
\* beside a collapsed or childless sibling
ChildrenRowsWitness ==
    /\ view # NoView
    /\ view.searchQuery = ""
    /\ \E k \in 1..Len(view.visibleItems) :
         /\ view.visibleItems[k].id = "a/b/a"
         /\ view.visibleItems[k - 1].id = "a/b"
    /\ \E k \in 1..Len(view.visibleItems) : view.visibleItems[k].id = "a/ab"

\* the rows of items that are not below the goal x, the row of x marked
\* collapsed
WithoutRowsBelow(items, x) ==
    LET kept == SelectSeq(items, LAMBDA item : ~HasPrefix(item.id, x \o Separator))
    IN [k \in 1..Len(kept) |->
           IF kept[k].id = x THEN [kept[k] EXCEPT !.isExpanded = FALSE]
           ELSE kept[k]]

\* the goal under the cursor, "" when there is none
UnderCursor(m) ==
    IF m.cursor < Len(m.visibleItems) THEN m.visibleItems[m.cursor + 1].id
    ELSE ""

\* a key has collapsed the goal x under the cursor
Collapsed(x) ==
    /\ x = UnderCursor(view)
    /\ x \in view.expandedState
    /\ x \notin view'.expandedState
    /\ view'.expandedState \subseteq view.expandedState
    /\ view'.goals = view.goals
    /\ view'.queue = view.queue
    /\ view'.activeQueue = view.activeQueue

\* a key has expanded the goal x under the cursor, and only it
Expanded(x) ==
    /\ x = UnderCursor(view)
    /\ x \notin view.expandedState
    /\ view'.expandedState = view.expandedState \cup {x}
    /\ view'.goals = view.goals
    /\ view'.queue = view.queue
    /\ view'.activeQueue = view.activeQueue

\* C23: collapsing a goal takes the rows of the goals below it out of the
\* projection and leaves all other rows in place and in order; expanding a
\* goal adds the rows below it and nothing else; and expanding the goal
\* just collapsed gives back the projection from before the collapse
CollapseAndExpandAreInverse ==
    [][\A x \in {UnderCursor(view)} :
         /\ Collapsed(x) =>
              /\ view'.visibleItems = WithoutRowsBelow(view.visibleItems, x)
              /\ view'.cursor = view.cursor
              /\ rebuildVisible([view' EXCEPT !.expandedState = @ \cup {x}])
                    .visibleItems = view.visibleItems
         /\ Expanded(x) =>
              view.visibleItems = WithoutRowsBelow(view'.visibleItems, x)]_vars

\* a goal has been collapsed while its child is still marked expanded: no
\* row below it is shown, and the rows of its siblings are
CollapseAndExpandWitness ==
    /\ view # NoView
    /\ UnderCursor(view) = "a"
    /\ "a" \notin view.expandedState
    /\ "a/b" \in view.expandedState
    /\ \A k \in 1..Len(view.visibleItems) :
         ~HasPrefix(view.visibleItems[k].id, "a/")
    /\ \E k \in 1..Len(view.visibleItems) : view.visibleItems[k].id = "b"

\* the top-level goals a projection is made of: the active queue goal, or
\* all goals section by section
ScopeGoals(m) ==
    IF ActiveNamesGoal(m)
    THEN LET hits == {i \in 1..Len(m.goals) :
                         m.goals[i].slug = m.queue[m.activeQueue + 1]}
         IN <<m.goals[CHOOSE i \in hits : \A j \in hits : i <= j]>>
    ELSE InGroup(m.goals, "TODAY") \o InGroup(m.goals, "TOMORROW")
            \o InGroup(m.goals, "FUTURE")

\* the goal of path p matches the query
NameMatches(m, p) ==
    Contains(ToLower(displayName(FindIn(m.goals, p))), ToLower(m.searchQuery))

\* the paths the filter has to retain: the matches and their ancestors
ToRetain(m) ==
    LET scope == PathsOf(ScopeGoals(m))
        matches == {p \in scope : NameMatches(m, p)}
    IN matches \cup {q \in scope : \E p \in matches : HasPrefix(p, q \o Separator)}

\* the search bar has just computed the filter for a non-empty query
Filtered ==
    /\ view'.searchQuery # view.searchQuery
    /\ view'.searchQuery # ""

\* C24: once a non-empty query is typed, the goal rows of the projection are
\* exactly the goals whose name contains the query (letter case ignored)
\* and their ancestors, in tree order, whatever was collapsed before, and
\* every ancestor of a match is in the expanded set
MatchesAndAncestorsRetained ==
    [][Filtered =>
        \A m \in {view'} :
          /\ [k \in 1..Len(SelectSeq(m.visibleItems,
                               LAMBDA item : ~item.isSectionHeader)) |->
                 SelectSeq(m.visibleItems,
                           LAMBDA item : ~item.isSectionHeader)[k].id]
               = SelectSeq(TreeOrder(ScopeGoals(m), 1),
                           LAMBDA p : p \in ToRetain(m))
          /\ \A q \in ToRetain(m) :
               (\E p \in ToRetain(m) : HasPrefix(p, q \o Separator)) =>
                   q \in m.expandedState]_vars

\* C25: while a filter is active every section header shown is followed, up
\* to the next header, by the row of a top-level goal of that section
ShownHeadersHaveRows ==
    (view # NoView /\ view.searchQuery # "") =>
      \A items \in {view.visibleItems} :
        \A k \in 1..Len(items) :
          items[k].isSectionHeader =>
            \E j \in (k + 1)..Len(items) :
              /\ \A i \in (k + 1)..j : ~items[i].isSectionHeader
              /\ items[j].depth = 1
              /\ SectionOf(FindIn(view.goals, items[j].id)) = items[k].name

\* the status after s in the cycle
StatusAfter(s) ==
    CASE s = StatusIncomplete -> StatusInProgress
      [] s = StatusInProgress -> StatusComplete
      [] s = StatusComplete -> StatusIncomplete

CycleStatuses == {StatusIncomplete, StatusInProgress, StatusComplete}

Toggled == calls' = calls + 1 /\ last'.op = "ToggleStatus"

\* C27: a ToggleStatus call on a goal of status incomplete, in-progress or
\* complete persists the next status of the cycle; after three toggles of
\* one goal in a row its status is what it was before them; on a path
\* without a readable goal.md the call returns an error and no directory
\* or file changes
ToggleCyclesStatus ==
    [][/\ \A p \in CallPaths(dirs) :
            LoadGoal(dirs, files, p).err =>
                \A r \in {ToggleStatus(dirs, files, p)} :
                    r.err # "" /\ r.dirs = dirs /\ r.files = files
       /\ (Toggled /\ last'.err # "") => (dirs' = dirs /\ files' = files)
       /\ (Toggled /\ last'.err = "") =>
            \A before \in {LoadGoal(dirs, files, last'.path)},
               after \in {LoadGoal(dirs', files', last'.path)} :
                /\ ~before.err /\ ~after.err
                /\ before.goal.status \in CycleStatuses =>
                     /\ after.goal.status = StatusAfter(before.goal.status)
                     /\ files'[last'.path].status = after.goal.status
                /\ (observed'.count = 3 /\ observed'.first \in CycleStatuses) =>
                     after.goal.status = observed'.first]_vars

\* a goal has been toggled three times in a row and has the status it began
\* with
ToggleCyclesWitness ==
    /\ last.op = "ToggleStatus"
    /\ last.err = ""
    /\ observed.count = 3
    /\ observed.path = last.path
    /\ observed.first \in CycleStatuses
    /\ files[last.path].status = observed.first

HorizonSet == calls' = calls + 1 /\ last'.op = "SetHorizon" /\ last'.err = ""

PathsIn(goals) == [i \in 1..Len(goals) |-> goals[i].path]

\* text contains sub, letter case ignored
ContainsFold(text, sub) == Contains(ToLower(text), ToLower(sub))

\* C26: SearchNotes returns the goals of the loaded tree whose title or body
\* contains the query, letter case ignored, in depth-first order: every
\* goal at every depth is tested, below a matching parent and below a
\* non-matching one alike
SearchReturnsEveryMatch ==
    last.op = "SearchNotes" =>
      \A goals \in {LoadGoalTree(dirs, files)} :
        /\ PathsIn(returned)
             = SelectSeq(TreeOrder(goals, 1), LAMBDA p :
                   \/ ContainsFold(FindIn(goals, p).title, last.arg)
                   \/ ContainsFold(FindIn(goals, p).body, last.arg))
        /\ \A i \in 1..Len(returned) :
             returned[i] = FindIn(goals, returned[i].path)

\* a query in upper case found a goal below a parent that does not match,
\* and that goal's child, which matches by its body only
SearchReturnsWitness ==
    /\ last.op = "SearchNotes"
    /\ last.arg = "B"
    /\ "a" \in dirs
    /\ \A i \in 1..Len(returned) : returned[i].path # "a"
    /\ \E i \in 1..Len(returned) : returned[i].path = "a/b"
    /\ \E i \in 1..Len(returned) :
         /\ returned[i].path = "a/b/a"
         /\ returned[i].title = "a"
         /\ returned[i].body = "x B"

\* C29: GoalsByHorizon puts every goal of the loaded tree, at every depth,
\* in exactly one of the three groups: today or tomorrow when that is its
\* own horizon, future otherwise; the sizes of the groups add up to the
\* number of goals, and each group is in depth-first order
GoalsByHorizonPartitions ==
    last.op = "GoalsByHorizon" =>
      \A goals \in {LoadGoalTree(dirs, files)} :
        LET all == TreeOrder(goals, 1)
        IN /\ PathsIn(returned.today)
                = SelectSeq(all, LAMBDA p :
                      FindIn(goals, p).horizon = HorizonToday)
           /\ PathsIn(returned.tomorrow)
                = SelectSeq(all, LAMBDA p :
                      FindIn(goals, p).horizon = HorizonTomorrow)
           /\ PathsIn(returned.future)
                = SelectSeq(all, LAMBDA p :
                      FindIn(goals, p).horizon \notin
                          {HorizonToday, HorizonTomorrow})
           /\ Len(returned.today) + Len(returned.tomorrow)
                + Len(returned.future) = Len(all)
           /\ \A p \in PathsOf(goals) :
                Cardinality({k \in 1..Len(returned.today) :
                                returned.today[k].path = p})
                + Cardinality({k \in 1..Len(returned.tomorrow) :
                                  returned.tomorrow[k].path = p})
                + Cardinality({k \in 1..Len(returned.future) :
                                  returned.future[k].path = p}) = 1

\* goals of the three depths are in three different groups, the one without
\* a recognized horizon in future
GoalsByHorizonWitness ==
    /\ last.op = "GoalsByHorizon"
    /\ \E i \in 1..Len(returned.future) :
         /\ returned.future[i].path = "a"
         /\ returned.future[i].horizon = "someday"
    /\ \E i \in 1..Len(returned.tomorrow) : returned.tomorrow[i].path = "a/b"
    /\ \E i \in 1..Len(returned.today) : returned.today[i].path = "a/b/a"

\* the structured fields of two goals are the same
SameFields(g, h) ==
    /\ g.title = h.title
    /\ g.status = h.status
    /\ g.horizon = h.horizon
    /\ g.tags = h.tags
    /\ DOMAIN g.links = DOMAIN h.links
    /\ \A k \in DOMAIN g.links : g.links[k] = h.links[k]
    /\ g.children_order = h.children_order

\* C30: ParseFrontmatter of what SerializeFrontmatter wrote for a goal
\* succeeds and gives the title, status, horizon, tags, links and
\* children_order of the goal, and its body without the line breaks at its
\* start and the white space at its end
FrontmatterRoundTrip ==
    last.op = "ParseFrontmatter" =>
        /\ returned.parsed.err = ""
        /\ SameFields(returned.parsed.goal, returned.goal)
        /\ returned.parsed.goal.body = ParsedBody(returned.goal.body)

\* the string that yaml.Marshal writes last ends in a line break
LastStringEndsInBreak(g) ==
    IF g.children_order # <<>>
    THEN HasSuffix(g.children_order[Len(g.children_order)], "\n")
    ELSE IF DOMAIN g.links # {}
    THEN \E k \in DOMAIN g.links :
            /\ \A j \in DOMAIN g.links : j = k \/ StrLess(j, k)
            /\ HasSuffix(g.links[k], "\n")
    ELSE /\ g.tags # <<>>
         /\ HasSuffix(g.tags[Len(g.tags)], "\n")

\* the round trip of the goals whose last written string does not end in a
\* line break
FrontmatterRoundTripElsewhere ==
    (last.op = "ParseFrontmatter" /\ ~LastStringEndsInBreak(returned.goal))
        => FrontmatterRoundTrip

\* every kind of string and collection went through the round trip
FrontmatterRoundTripReached ==
    /\ last.op = "ParseFrontmatter"
    /\ FrontmatterRoundTrip
    /\ returned.goal.title = "a\nb"
    /\ returned.goal.tags = <<"a\n", "b">>
    /\ DOMAIN returned.goal.links = {"a", "b"}
    /\ returned.goal.links["a"] = "x\n"
    /\ returned.goal.children_order # <<>>
    /\ returned.goal.body = " x\n\n---\ny"

\* the trimmed text starts with the delimiter and no later line of it does
OpenedNotClosed(text) ==
    \A lines \in {YamlLines(TrimSpace(text))} :
        /\ HasPrefix(lines[1], frontmatterDelimiter)
        /\ \A k \in 2..Len(lines) : ~HasPrefix(lines[k], frontmatterDelimiter)

QueueRoundTrip ==
    last.op = "LoadQueue" =>
        /\ QueuePath \notin DOMAIN files =>
              returned.err = "" /\ returned.items = <<>>
        /\ observed.saved =>
              returned.err = "" /\ returned.items = observed.items

\* a saved list of items that look like numbered and like empty lines came
\* back
QueueRoundTripWitness ==
    /\ last.op = "LoadQueue"
    /\ observed.saved
    /\ observed.items = <<"1.", "2. a">>
    /\ returned.items = <<"1.", "2. a">>
    /\ files[QueuePath].text
         = "---\nupdated: \"2026-02-01T10:00:00Z\"\n---\n\n1. 1.\n2. 2. a\n"

\* the item the claim gives a trimmed line: the text behind digits, a
\* period and a space, and the line itself when it does not begin so
ClaimedItem(line) ==
    LET n == LeadingDigits(line)
    IN IF n >= 1 /\ n + 2 <= Len(line) /\ SubSeq(line, n + 1, n + 2) = ". "
       THEN TrimSpace(SubSeq(line, n + 3, Len(line)))
       ELSE line

\* one claimed item for each line that is not blank
RECURSIVE ClaimedItems(_, _)
ClaimedItems(lines, i) ==
    IF i > Len(lines) THEN <<>>
    ELSE (IF TrimSpace(lines[i]) = "" THEN <<>>
          ELSE <<ClaimedItem(TrimSpace(lines[i]))>>)
             \o ClaimedItems(lines, i + 1)

\* C33: ParseQueue gives one item for each line that is not blank, in the
\* order of the lines: the text of a line of the form digits, period,
\* space, text; any other line as it is, a line of digits among them
OneItemPerLine ==
    (last.op = "LoadQueue" /\ QueuePath \in DOMAIN files /\ ~observed.saved) =>
        /\ returned.err = ""
        /\ returned.items = ClaimedItems(observed.items, 1)

\* the same on the files whose lines are numbered with a space behind the
\* period, or hold no period behind their leading digits
OneItemPerLineElsewhere ==
    (last.op = "LoadQueue" /\ QueuePath \in DOMAIN files /\ ~observed.saved
        /\ \A i \in 1..Len(observed.items) :
              observed.items[i] \notin {"1.", ".a", "3.14"}) =>
        /\ returned.err = ""
        /\ returned.items = ClaimedItems(observed.items, 1)

\* C34: a DeleteGoal that succeeds removes the goal and what is below it
\* and leaves goals/goal.md, queue.md and the goal.md of every other goal
\* (the hint of the parent among them) as they were; the LoadGoalTree that
\* follows loads the goals that remain and none of the deleted ones, also
\* when a hint or queue.md still names one
DeleteCleansNothingElse ==
    [][/\ (last'.op = "DeleteGoal" /\ last'.err = "") =>
             /\ dirs' = {q \in dirs : ~AtOrBelow(q, last'.path)}
             /\ DOMAIN files' = {q \in DOMAIN files : q \in dirs' \cup {"", QueuePath}}
             /\ \A q \in DOMAIN files' : files'[q] = files[q]
             /\ QueuePath \in DOMAIN files'
       /\ (last'.op = "LoadGoalTree" /\ last.op = "DeleteGoal" /\ last.err = "") =>
             /\ PathsOf(tree') = dirs
             /\ \A q \in PathsOf(tree') : ~AtOrBelow(q, last.path)]_vars

\* the goal a with a child was deleted beside ab; the hint of goals/ and
\* queue.md still name a, and the tree loaded afterwards is ab alone
DeleteCleansNothingWitness ==
    /\ last.op = "LoadGoalTree"
    /\ observed = "a"
    /\ dirs = {"ab"}
    /\ \E i \in 1..Len(files[""].order) : files[""].order[i] = "a"
    /\ Contains(files[QueuePath].text, "1. a\n")
    /\ PathsOf(tree) = {"ab"}

\* C35: when the search query changes to one that is not empty, every
\* top-level goal whose name contains the query, letter case ignored, is
\* recorded as a match, whatever the active queue item is
MatchScopeIgnoresQueue ==
    [][(view'.searchQuery # view.searchQuery /\ view'.searchQuery # "") =>
          \A i \in 1..Len(view'.goals) :
              ContainsFold(displayName(view'.goals[i]), view'.searchQuery) =>
                  view'.goals[i].path \in view'.searchMatchIDs]_vars

\* the same while no goal is the active queue item
MatchScopeWithoutActiveGoal ==
    [][(view'.searchQuery # view.searchQuery /\ view'.searchQuery # ""
           /\ GoalsToShow(view') = <<>>) =>
          \A i \in 1..Len(view'.goals) :
              ContainsFold(displayName(view'.goals[i]), view'.searchQuery) =>
                  view'.goals[i].path \in view'.searchMatchIDs]_vars

\* C36: receiving an event whose name does not end in ".md" leaves the
\* debounce timer and the notifications as they were; receiving an error of
\* the watcher does so too and leaves the loop running; and the timers
\* started and the notifications sent are never more than the events
\* received whose name ends in ".md"
OnlyMarkdownEventsCount ==
    [][/\ (/\ ~watcher.done /\ ~watcher'.done
           /\ watcher.events # <<>>
           /\ watcher'.events = Tail(watcher.events)
           /\ ~HasSuffix(Head(watcher.events).name, ".md")) =>
             /\ watcher'.timers = watcher.timers
             /\ watcher'.debounceTimer = watcher.debounceTimer
             /\ watcher'.sent = watcher.sent
       /\ (~watcher.done /\ watcher'.errors < watcher.errors /\ ~watcher'.done) =>
             /\ watcher'.timers = watcher.timers
             /\ watcher'.debounceTimer = watcher.debounceTimer
             /\ watcher'.sent = watcher.sent
             /\ watcher'.events = watcher.events
             /\ watcher'.watched = watcher.watched
       /\ (observed'.errorsSeen > observed.errorsSeen) => ~watcher'.done
       /\ watcher'.sent + Cardinality(watcher'.timers) <= observed'.relevant
      ]_vars

\* the creation of the directory data/x and an error were received, and
\* then the change of a goal.md: one notification, of the goal.md
OnlyMarkdownEventsWitness ==
    /\ "data/x" \in observed.createsSeen
    /\ observed.errorsSeen = 1
    /\ observed.relevant = 1
    /\ watcher.sent = 1
    /\ ~watcher.done

\* C37: whenever the visible list has rows, the cursor is the index of one
\* of them and that row is no section header; when the list has no rows the
\* cursor is 0
CursorOnGoalRow ==
    IF Len(view.visibleItems) = 0 THEN view.cursor = 0
    ELSE /\ view.cursor >= 0
         /\ view.cursor < Len(view.visibleItems)
         /\ ~view.visibleItems[view.cursor + 1].isSectionHeader

\* C38: no call of the store that the keys make names the empty path
NoMutationOfEmptyPath ==
    [][calls' = calls + 1 => last'.path # ""]_vars

\* the goals of the tree that have the path
RECURSIVE GoalsAtPath(_, _, _)
GoalsAtPath(goals, i, path) ==
    IF i > Len(goals) THEN {}
    ELSE (IF goals[i].path = path THEN {goals[i]} ELSE {})
            \cup GoalsAtPath(goals[i].children, 1, path)
            \cup GoalsAtPath(goals, i + 1, path)

\* C39: once the tree is loaded and getSiblingOrder has returned for a
\* parent, the names it returned are, in the same order, the slugs of the
\* children the loaded tree has for that parent (of the top-level goals for
\* the root); it returns an error only for a directory that does not exist
SiblingOrderIsLoadedOrder ==
    (last.op = "LoadGoalTree" /\ returned # <<>>) =>
        IF returned.got.err
        THEN /\ returned.parentPath \notin dirs \cup {""}
             /\ GoalsAtPath(tree, 1, returned.parentPath) = {}
        ELSE IF returned.parentPath = ""
        THEN returned.got.order = [i \in 1..Len(tree) |-> tree[i].slug]
        ELSE /\ GoalsAtPath(tree, 1, returned.parentPath) # {}
             /\ \A g \in GoalsAtPath(tree, 1, returned.parentPath) :
                   returned.got.order =
                       [i \in 1..Len(g.children) |-> g.children[i].slug]

\* the hint of a lists b before ab and a name of no directory, a/a is not
\* listed: both give b, ab's place to b first and a/a last
SiblingOrderWitness ==
    /\ last.op = "LoadGoalTree"
    /\ returned # <<>>
    /\ returned.parentPath = "a"
    /\ ~returned.got.err
    /\ returned.got.order = <<"b", "a">>
    /\ FileAt(files, "a").order = <<"b", "x">>

\* C40: every goal directory under goals/ holds a goal.md that LoadGoal
\* reads, after any calls of the store on the empty store
EveryGoalDirHasGoalFile ==
    \A p \in dirs : ~LoadGoal(dirs, files, p).err

\* C40 for parents that exist: a CreateGoal that returns nil under the root
\* or under a goal that has its goal.md leaves every directory it made with
\* a goal.md
CreateUnderGoalKeepsGoalFiles ==
    [][(/\ last'.op = "CreateGoal"
        /\ last'.err = ""
        /\ calls' = calls + 1
        /\ EveryGoalDirHasGoalFile
        /\ last'.path \in dirs \cup {""}) =>
            EveryGoalDirHasGoalFile']_vars

====
